---- MODULE Spec2Model ----
(***************************************************************************)
(* State-machine model of the emurs NES emulator core: the PPU timing and  *)
(* register state machine (src/src/ppu.rs, src/src/ppu/ppu_memory.rs), the *)
(* bus and its controller port (src/src/cpu/bus.rs, controller.rs, and the  *)
(* older cpu_memory.rs and memory_map.rs), the 6502 interpreter             *)
(* (src/src/cpu.rs) and the adder of the older one (src/src/main.rs).      *)
(***************************************************************************)
EXTENDS Integers, Sequences, FiniteSets, TLC

VARIABLES
    ppu,        \* the Ppu<PpuMemory> struct (src/src/ppu.rs:113-130)
    bus_cycle,  \* Bus.cycle (src/src/cpu/bus.rs:14)
    bus,        \* the other fields of Bus (src/src/cpu/bus.rs:8-13), or those of
                \* a CpuMemory or a MemoryMap
    cpu,        \* CPU.registers (src/src/cpu.rs:22-29)
    mem,        \* CPU.memory, the bytes of the 64 KiB RAM known so far
    cycles,     \* number of CPU::clock_cycle calls made so far
    ops,        \* number of operations made so far in a bounded run
    ret,        \* the last call made, its argument and what it returned
    aborted     \* TRUE once a panic! / unimplemented! has been hit

vars == <<ppu, bus_cycle, bus, cpu, mem, cycles, ops, ret, aborted>>

----------------------------------------------------------------------------
(* Bounds of the model *)

\* largest dot count handed to Ppu::tick in one call
MaxTick == 400
\* largest CPU cycle count handed to Bus::tick
MaxCpuCycle == 29800
\* largest number of PPU register operations in one run
MaxOps == 4
\* largest number of CPU clock cycles in one run
MaxCycles == 6
\* largest number of instructions of one program
MaxInstrs == 2
\* largest number of additions in one run
MaxAdds == 1
\* compares applied in one behaviour of the compare unit
MaxCompares == 1
\* reads and writes of the controller port in one run: two writes and ten reads
MaxPolls == 12
\* reads and writes of the memory map in one run
MaxIo == 2
\* calls of Bus::tick in one run of the bus clock
MaxBusTicks == 3
\* reads and writes of the PPU memory in one run
MaxVramOps == 2

----------------------------------------------------------------------------
(* u8 / u16 arithmetic *)

Pow2(n) == 2 ^ n

\* (v >> b) & 1 == 1
Bit(v, b) == (v \div Pow2(b)) % 2 = 1

\* v | (1 << b)   or   v & !(1 << b)
WithBit(v, b, value) ==
    IF value
    THEN IF Bit(v, b) THEN v ELSE v + Pow2(b)
    ELSE IF Bit(v, b) THEN v - Pow2(b) ELSE v

\* (hi as u16) << 8 | (lo as u16)
Word(hi, lo) == hi * 256 + lo

----------------------------------------------------------------------------
(* Program constants of src/src/ppu.rs *)

PPU_ADDR_MASK == 16383
PPU_CTRL_VRAM_ADD_INCREMENT_BIT == 2
PPU_CTRL_VBLANK_NMI_BIT == 7
PPU_STATUS_SPRITE_OVERFLOW_BIT == 5
PPU_STATUS_SPRITE_HIT_BIT == 6
PPU_STATUS_VBLANK_BIT == 7
SCANLINES == 262
VISIBLE_SCANLIENS == 240
SCANLINE_CYCLES == 341

----------------------------------------------------------------------------
(* PPU memory: src/src/ppu/ppu_memory.rs and src/src/memory.rs *)

PALETTE_SIZE == 32

\* The cartridge's CHR-ROM: one 8 KiB chunk whose bytes are all non-zero, so
\* that a byte read from it is told apart from freshly zeroed RAM.
chr_rom(a) == (a % 255) + 1

\* Ram::new: a zero-filled vector, kept as the map of its non-zero cells.
Ram_new == [k \in {} |-> 0]

\* Ram::read (every index the PPU memory passes is inside the vector)
Ram_read(ram, a) == IF a \in DOMAIN ram THEN ram[a] ELSE 0

\* Ram::write
Ram_write(ram, a, v) ==
    LET dom == IF v = 0 THEN DOMAIN ram \ {a} ELSE DOMAIN ram \cup {a}
    IN  [k \in dom |-> IF k = a THEN v ELSE ram[k]]

\* PpuMemory::new
PpuMemory_new(mirroring) ==
    [vram |-> Ram_new, palette_table |-> Ram_new, mirroring |-> mirroring]

\* a fold that ignores the cartridge's mirroring
mirror_vram_addr_flat(m, vram_addr) == vram_addr % 2048

\* PpuMemory::mirror_vram_addr
mirror_vram_addr(m, vram_addr) ==
    IF m.mirroring = "Vertical"
    THEN IF vram_addr < 2048 THEN vram_addr ELSE vram_addr - 2048
    ELSE IF vram_addr < 1024 THEN vram_addr
         ELSE IF vram_addr < 3072 THEN vram_addr - 1024
         ELSE vram_addr - 2048

\* The addresses at which PpuMemory::read panics.
PpuMemory_read_panics(addr) ==
    \/ addr \in 12288..16127
    \/ addr >= 16384

\* PpuMemory::read, for the addresses at which it returns.
PpuMemory_read(m, addr) ==
    IF addr < 8192 THEN chr_rom(addr)
    ELSE IF addr < 12288 THEN Ram_read(m.vram, mirror_vram_addr(m, addr - 8192))
    ELSE Ram_read(m.palette_table, (addr - 16128) % PALETTE_SIZE)

\* The addresses at which PpuMemory::write panics.
PpuMemory_write_panics(addr) ==
    \/ addr < 8192
    \/ addr \in 12288..16127
    \/ addr >= 16384

\* PpuMemory::write, for the addresses at which it returns.
PpuMemory_write(m, addr, data) ==
    IF addr < 12288
    THEN [m EXCEPT !.vram = Ram_write(@, mirror_vram_addr(m, addr - 8192), data)]
    ELSE [m EXCEPT !.palette_table =
                       Ram_write(@, (addr - 16128) % PALETTE_SIZE, data)]

----------------------------------------------------------------------------
(* The PPU: src/src/ppu.rs *)

\* PpuAddr::new
PpuAddr_new == [hi |-> 0, lo |-> 0, is_hi |-> TRUE]

\* PpuAddr::set
PpuAddr_set(addr, value) ==
    IF addr.is_hi
    THEN [addr EXCEPT !.hi = value, !.is_hi = ~addr.is_hi]
    ELSE [addr EXCEPT !.lo = value, !.is_hi = ~addr.is_hi]

\* PpuAddr::get_addr
get_addr(addr) == Word(addr.hi, addr.lo) % (PPU_ADDR_MASK + 1)

\* increment_addr that moves the address by one whatever the amount
increment_addr_across(addr, amount) ==
    LET new_addr == (get_addr(addr) + 1) % 65536
    IN  [addr EXCEPT !.hi = new_addr \div 256, !.lo = new_addr % 256]

\* PpuAddr::increment_addr
increment_addr(addr, amount) ==
    LET new_addr == (get_addr(addr) + amount) % 65536
    IN  [addr EXCEPT !.hi = new_addr \div 256, !.lo = new_addr % 256]

\* PpuScroll::new
PpuScroll_new == [x |-> 0, y |-> 0, is_x |-> TRUE]

\* PpuScroll::set
PpuScroll_set(scroll, value) ==
    IF scroll.is_x
    THEN [scroll EXCEPT !.x = value, !.is_x = ~scroll.is_x]
    ELSE [scroll EXCEPT !.y = value, !.is_x = ~scroll.is_x]

\* Ppu::new
Ppu_new(mirroring) ==
    [ctrl |-> 0, mask |-> 0, status |-> 0,
     scroll |-> PpuScroll_new, addr |-> PpuAddr_new, data_buffer |-> 0,
     scanline |-> 1, cycle |-> 0, nmi |-> FALSE, new_frame |-> FALSE,
     memory |-> PpuMemory_new(mirroring)]

\* Ppu::get_ctrl_bit
get_ctrl_bit(p, bit) == Bit(p.ctrl, bit)

\* Ppu::get_status_bit
get_status_bit(p, bit) == Bit(p.status, bit)

\* Ppu::set_status_bit
set_status_bit(p, bit, value) == [p EXCEPT !.status = WithBit(@, bit, value)]

\* Ppu::is_vblank
is_vblank(p) == get_status_bit(p, PPU_STATUS_VBLANK_BIT)

\* Ppu::tick, lines 179-184: the scanline counter has just been incremented
tick_vblank(p) ==
    IF p.scanline = VISIBLE_SCANLIENS + 1
    THEN LET q == set_status_bit(p, PPU_STATUS_VBLANK_BIT, TRUE)
         IN  IF get_ctrl_bit(q, PPU_CTRL_VBLANK_NMI_BIT)
             THEN [q EXCEPT !.nmi = TRUE]
             ELSE q
    ELSE p

\* a frame wrap that leaves a pending NMI pending
tick_wrap_keeps_nmi(p) ==
    IF p.scanline > SCANLINES
    THEN LET q  == [p EXCEPT !.scanline = 0]
             q1 == set_status_bit(q, PPU_STATUS_SPRITE_HIT_BIT, FALSE)
             q2 == set_status_bit(q1, PPU_STATUS_VBLANK_BIT, FALSE)
         IN  [q2 EXCEPT !.new_frame = TRUE]
    ELSE p

\* Ppu::tick, lines 186-192
tick_wrap(p) ==
    IF p.scanline > SCANLINES
    THEN LET q  == [p EXCEPT !.scanline = 0, !.nmi = FALSE]
             q1 == set_status_bit(q, PPU_STATUS_SPRITE_HIT_BIT, FALSE)
             q2 == set_status_bit(q1, PPU_STATUS_VBLANK_BIT, FALSE)
         IN  [q2 EXCEPT !.new_frame = TRUE]
    ELSE p

\* Ppu::tick (a cycle below 0 stands for a u32 of 2^31 or more)
Ppu_tick(p, cycle) ==
    LET p0 == [p EXCEPT !.cycle = cycle]
    IN  IF p0.cycle > SCANLINE_CYCLES \/ p0.cycle < 0
        THEN tick_wrap(tick_vblank([p0 EXCEPT !.cycle = @ - SCANLINE_CYCLES,
                                              !.scanline = @ + 1]))
        ELSE p0

\* poll_nmi that reports the pending NMI without consuming it
poll_nmi_keep(p) == [self |-> p, value |-> p.nmi]

\* Ppu::poll_nmi: the PPU after the call and the value returned
poll_nmi(p) == [self |-> [p EXCEPT !.nmi = FALSE], value |-> p.nmi]

\* Ppu::poll_new_frame
poll_new_frame(p) == [self |-> [p EXCEPT !.new_frame = FALSE], value |-> p.new_frame]

\* write_ppu_ctrl that raises the NMI on the level of bit 7, not on its
\* 0 -> 1 edge
write_ppu_ctrl_level(p, value) ==
    LET q == [p EXCEPT !.ctrl = value]
    IN  IF get_ctrl_bit(q, PPU_CTRL_VBLANK_NMI_BIT) /\ is_vblank(q)
        THEN [q EXCEPT !.nmi = TRUE]
        ELSE q

\* Ppu::write_ppu_ctrl
write_ppu_ctrl(p, value) ==
    LET old_nmi == get_ctrl_bit(p, PPU_CTRL_VBLANK_NMI_BIT)
        q == [p EXCEPT !.ctrl = value]
    IN  IF ~old_nmi /\ get_ctrl_bit(q, PPU_CTRL_VBLANK_NMI_BIT) /\ is_vblank(q)
        THEN [q EXCEPT !.nmi = TRUE]
        ELSE q

\* read_ppu_status that returns the status byte as it is after the read
read_ppu_status_after(p) ==
    LET q == set_status_bit(p, PPU_STATUS_VBLANK_BIT, FALSE)
    IN  [self |-> [q EXCEPT !.addr.is_hi = TRUE, !.scroll.is_x = TRUE],
         value |-> q.status]

\* Ppu::read_ppu_status
read_ppu_status(p) ==
    LET value == p.status
        q == set_status_bit(p, PPU_STATUS_VBLANK_BIT, FALSE)
    IN  [self |-> [q EXCEPT !.addr.is_hi = TRUE, !.scroll.is_x = TRUE],
         value |-> value]

\* Ppu::write_ppu_mask
write_ppu_mask(p, value) == [p EXCEPT !.mask = value]

\* Ppu::write_ppu_scroll
write_ppu_scroll(p, value) == [p EXCEPT !.scroll = PpuScroll_set(@, value)]

\* Ppu::write_ppu_addr
write_ppu_addr(p, value) == [p EXCEPT !.addr = PpuAddr_set(@, value)]

\* Ppu::addr_increment_amount
addr_increment_amount(p) ==
    IF ~get_ctrl_bit(p, PPU_CTRL_VRAM_ADD_INCREMENT_BIT) THEN 1 ELSE 32

\* Ppu::read_ppu_data panics exactly when its memory read does
read_ppu_data_panics(p) == PpuMemory_read_panics(get_addr(p.addr))

\* Ppu::read_ppu_data, when it returns
read_ppu_data(p) ==
    LET addr == get_addr(p.addr)
        fetched == PpuMemory_read(p.memory, addr)
        inc == addr_increment_amount(p)
    IN  IF addr \in 16128..16383
        THEN [self |-> [p EXCEPT !.addr = increment_addr(@, inc)],
              value |-> fetched]
        ELSE [self |-> [p EXCEPT !.data_buffer = fetched,
                                 !.addr = increment_addr(@, inc)],
              value |-> p.data_buffer]

\* Ppu::write_ppu_data panics exactly when its memory write does
write_ppu_data_panics(p) == PpuMemory_write_panics(get_addr(p.addr))

\* Ppu::write_ppu_data, when it returns
write_ppu_data(p, value) ==
    LET q == [p EXCEPT !.memory = PpuMemory_write(@, get_addr(p.addr), value)]
    IN  [q EXCEPT !.addr = increment_addr(@, addr_increment_amount(p))]

----------------------------------------------------------------------------
(* The bus timing pump: src/src/cpu/bus.rs *)

\* What delta * 3 leaves in a u32, for delta = cycle - b taken mod 2^32
\* (2^32 = 3 * 1431655765 + 1). The tool's integers are 32 bits wide: a u32 of
\* 2^31 or more is kept as its two's complement, the value less 2^32.
Bus_tick_dots(b, cycle) ==
    LET delta == cycle - b
    IN  IF delta > 1431655765 THEN 3 * (delta - 1431655765) - 1
        ELSE IF delta >= -715827882 THEN 3 * delta
        ELSE IF delta >= -1431655765 THEN 3 * (delta + 1431655765) + 1
        ELSE 3 * (delta + 1431655765 + 1431655765) + 2

\* Bus::tick panics: the u32 subtraction or multiplication overflows in a
\* build with overflow checks (in a build without them the result wraps)
Bus_tick_panics(b, cycle) == cycle < b \/ cycle - b > 1431655765

\* Bus::tick: the bus cycle count and the PPU after the call
Bus_tick(b, p, cycle) ==
    [cycle |-> cycle, ppu |-> Ppu_tick(p, Bus_tick_dots(b, cycle))]

----------------------------------------------------------------------------
(* The 6502 interpreter: src/src/cpu.rs *)

STATUS_NEGATIVE_BIT == 7
STATUS_OVERFLOW_BIT == 6
STATUS_IGNORED_BIT == 5
STATUS_BREAK_BIT == 4
STATUS_DECIMAL_BIT == 3
STATUS_INTERRUPT_BIT == 2
STATUS_ZERO_BIT == 1
STATUS_CARRY_BIT == 0
INTERRUPT_VECTOR_RES_LO == 65532
INTERRUPT_VECTOR_RES_HI == 65533
INTERRUPT_VECTOR_IRQ_LO == 65534
INTERRUPT_VECTOR_IRQ_HI == 65535

\* The bytes of the memory image loaded by RAM::load: the opcodes modelled
\* below (NOP, LDA #, TAX, INX, PHA, PLA) and one byte that run does not
\* decode.  A byte of the image is fixed the first time it is read.
ImageBytes == {234, 169, 170, 232, 72, 104, 2}

\* Registers::new
Registers_new == [a |-> 0, x |-> 0, y |-> 0, s |-> 0, pc |-> 1024, p |-> 0]

\* Registers::update_status_bit
update_status_bit(r, bit, value) == [r EXCEPT !.p = WithBit(@, bit, value)]

\* Registers::get_status_bit
get_status_bit_p(r, bit) == Bit(r.p, bit)

\* Registers::update_zn_flags
update_zn_flags(r, value) ==
    update_status_bit(update_status_bit(r, STATUS_ZERO_BIT, value = 0),
                      STATUS_NEGATIVE_BIT, Bit(value, 7))

\* Registers::update_a
update_a(r, value) == update_zn_flags([r EXCEPT !.a = value], value)

\* Registers::update_x
update_x(r, value) == update_zn_flags([r EXCEPT !.x = value], value)

\* Registers::update_y
update_y(r, value) == update_zn_flags([r EXCEPT !.y = value], value)

\* A machine state st is [r: the registers, mem: the memory, cycles: the
\* clock cycles so far].  A helper that reads memory yields the set of its
\* outcomes [st, val], one per value the byte read may have in the image.

\* RAM::read of a byte of the image
Cell(m, a) == IF a \in DOMAIN m THEN {m[a]} ELSE ImageBytes

\* the memory, knowing that the byte at a is b
Known(m, a, b) == [k \in DOMAIN m \cup {a} |-> IF k = a THEN b ELSE m[k]]

\* CPU::clock_cycle
clock_cycle(st) == [st EXCEPT !.cycles = @ + 1]

\* CPU::read_memory
read_memory(st, a) ==
    { [st |-> [clock_cycle(st) EXCEPT !.mem = Known(st.mem, a, b)], val |-> b] :
          b \in Cell(st.mem, a) }

\* CPU::write_memory
write_memory(st, a, v) == [clock_cycle(st) EXCEPT !.mem = Known(st.mem, a, v)]

\* CPU::next
next(st) ==
    { [st |-> [o.st EXCEPT !.r.pc = (@ + 1) % 65536], val |-> o.val] :
          o \in read_memory(st, st.r.pc) }

\* push_stack that decrements S before it writes
push_stack_predec(st, data) ==
    LET t == [st EXCEPT !.r.s = (@ + 255) % 256]
    IN  write_memory(t, 256 + t.r.s, data)

\* CPU::push_stack
push_stack(st, data) ==
    LET w == write_memory(st, 256 + st.r.s, data)
    IN  [w EXCEPT !.r.s = (@ + 255) % 256]

\* CPU::pull_stack
pull_stack(st) ==
    LET t == [st EXCEPT !.r.s = (@ + 1) % 256]
    IN  read_memory(t, 256 + t.r.s)

\* CPU::nop
nop(st) == {st}

\* CPU::lda_immediate
lda_immediate(st) == { [o.st EXCEPT !.r = update_a(@, o.val)] : o \in next(st) }

\* CPU::tax
tax(st) == { clock_cycle([st EXCEPT !.r = update_x(@, st.r.a)]) }

\* CPU::inx
inx(st) == { clock_cycle([st EXCEPT !.r = update_x(@, (st.r.x + 1) % 256)]) }

\* CPU::pha
pha(st) == { push_stack(clock_cycle(st), st.r.a) }

\* CPU::pla
pla(st) ==
    { [o.st EXCEPT !.r = update_a(@, o.val)] : o \in pull_stack(clock_cycle(st)) }

\* `b as i8`
AsI8(b) == IF b < 128 THEN b ELSE b - 256

\* `w as i16`
AsI16(w) == IF w < 32768 THEN w ELSE w - 65536

\* CPU::addr_zeropage
addr_zeropage(st) == next(st)

\* addr_zeropage_x that adds the index in 16 bits
addr_zeropage_x_carry(st) ==
    { [st |-> clock_cycle(a.st), val |-> a.val + a.st.r.x] : a \in next(st) }

\* CPU::addr_zeropage_x
addr_zeropage_x(st) ==
    { [st |-> clock_cycle(a.st), val |-> (a.val + a.st.r.x) % 256] : a \in next(st) }

\* CPU::addr_zeropage_y
addr_zeropage_y(st) ==
    { [st |-> clock_cycle(a.st), val |-> (a.val + a.st.r.y) % 256] : a \in next(st) }

\* CPU::addr_preindexed_indirect_zeropage_x
addr_preindexed_indirect_zeropage_x(st) ==
    UNION { LET first_addr == (zp.val + zp.st.r.x) % 256
            IN  UNION { { [st |-> hi.st, val |-> Word(hi.val, lo.val)] :
                          hi \in read_memory(lo.st, (first_addr + 1) % 256) } :
                        lo \in read_memory(clock_cycle(zp.st), first_addr) } :
            zp \in next(st) }

\* CPU::addr_absolute
addr_absolute(st) ==
    UNION { { [st |-> hi.st, val |-> Word(hi.val, lo.val)] : hi \in next(lo.st) } :
                lo \in next(st) }

\* index_cycle that charges every access the extra cycle only when a page is
\* crossed
index_cycle_on_cross(st, access, base, addr) ==
    LET page_cross == (base \div 256) # (addr \div 256)
    IN  IF page_cross THEN clock_cycle(st) ELSE st

\* the match on access of the indexed addressing modes: the extra clock cycle
index_cycle(st, access, base, addr) ==
    LET page_cross == (base \div 256) # (addr \div 256)
    IN  IF access = "Read"
        THEN IF page_cross THEN clock_cycle(st) ELSE st
        ELSE clock_cycle(st)

\* CPU::addr_absolute_x
addr_absolute_x(st, access) ==
    { LET addr == (b.val + b.st.r.x) % 65536
      IN  [st |-> index_cycle(b.st, access, b.val, addr), val |-> addr] :
          b \in addr_absolute(st) }

\* CPU::addr_absolute_y
addr_absolute_y(st, access) ==
    { LET addr == (b.val + b.st.r.y) % 65536
      IN  [st |-> index_cycle(b.st, access, b.val, addr), val |-> addr] :
          b \in addr_absolute(st) }

\* CPU::addr_postindexed_indirect_zeropage_y
addr_postindexed_indirect_zeropage_y(st, access) ==
    UNION { UNION { { LET base == Word(hi.val, lo.val)
                          addr == (base + hi.st.r.y) % 65536
                      IN  [st |-> index_cycle(hi.st, access, base, addr),
                           val |-> addr] :
                      hi \in read_memory(lo.st, (zp.val + 1) % 256) } :
                    lo \in read_memory(zp.st, zp.val) } :
            zp \in next(st) }

\* CPU::read_zeropage_x
read_zeropage_x(st) ==
    UNION { read_memory(a.st, a.val) : a \in addr_zeropage_x(st) }

\* CPU::read_zeropage_y
read_zeropage_y(st) ==
    UNION { read_memory(a.st, a.val) : a \in addr_zeropage_y(st) }

\* CPU::read_preindexed_indirect_zeropage_x
read_preindexed_indirect_zeropage_x(st) ==
    UNION { read_memory(a.st, a.val) :
                a \in addr_preindexed_indirect_zeropage_x(st) }

\* CPU::read_absolute_x
read_absolute_x(st) ==
    UNION { read_memory(a.st, a.val) : a \in addr_absolute_x(st, "Read") }

\* CPU::read_absolute_y
read_absolute_y(st) ==
    UNION { read_memory(a.st, a.val) : a \in addr_absolute_y(st, "Read") }

\* CPU::read_postindexed_indirect_zeropage_y
read_postindexed_indirect_zeropage_y(st) ==
    UNION { read_memory(a.st, a.val) :
                a \in addr_postindexed_indirect_zeropage_y(st, "Read") }

\* CPU::write_zeropage
write_zeropage(st, data) ==
    { write_memory(a.st, a.val, data) : a \in addr_zeropage(st) }

\* CPU::lda_zeropage_x
lda_zeropage_x(st) ==
    { [o.st EXCEPT !.r = update_a(@, o.val)] : o \in read_zeropage_x(st) }

\* CPU::lda_preindexed_indirect_zeropage_x
lda_preindexed_indirect_zeropage_x(st) ==
    { [o.st EXCEPT !.r = update_a(@, o.val)] :
          o \in read_preindexed_indirect_zeropage_x(st) }

\* CPU::ldx_zeropage_y
ldx_zeropage_y(st) ==
    { [o.st EXCEPT !.r = update_x(@, o.val)] : o \in read_zeropage_y(st) }

\* CPU::lda_absolute_x
lda_absolute_x(st) ==
    { [o.st EXCEPT !.r = update_a(@, o.val)] : o \in read_absolute_x(st) }

\* CPU::lda_absolute_y
lda_absolute_y(st) ==
    { [o.st EXCEPT !.r = update_a(@, o.val)] : o \in read_absolute_y(st) }

\* CPU::lda_postindexed_indirect_zeropage_y
lda_postindexed_indirect_zeropage_y(st) ==
    { [o.st EXCEPT !.r = update_a(@, o.val)] :
          o \in read_postindexed_indirect_zeropage_y(st) }

\* CPU::sta_zeropage
sta_zeropage(st) == write_zeropage(st, st.r.a)

\* CPU::sta_absolute_x
sta_absolute_x(st) ==
    { write_memory(a.st, a.val, a.st.r.a) : a \in addr_absolute_x(st, "Write") }

\* CPU::sta_absolute_y
sta_absolute_y(st) ==
    { write_memory(a.st, a.val, a.st.r.a) : a \in addr_absolute_y(st, "Write") }

\* CPU::sta_postindexed_indirect_zeropage_y
sta_postindexed_indirect_zeropage_y(st) ==
    { write_memory(a.st, a.val, a.st.r.a) :
          a \in addr_postindexed_indirect_zeropage_y(st, "Write") }

\* CPU::asl: the registers after the call and the byte returned
asl(r, data) ==
    LET carry == Bit(data, 7)
        result == (data * 2) % 256
    IN  [r |-> update_zn_flags(update_status_bit(r, STATUS_CARRY_BIT, carry), result),
         val |-> result]

\* CPU::rol
rol(r, data) ==
    LET carry == Bit(data, 7)
        result == ((data * 2) % 256) + (IF get_status_bit_p(r, STATUS_CARRY_BIT) THEN 1 ELSE 0)
    IN  [r |-> update_status_bit(update_zn_flags(r, result), STATUS_CARRY_BIT, carry),
         val |-> result]

\* CPU::lsr
lsr(r, data) ==
    LET carry == Bit(data, 0)
        result == data \div 2
    IN  [r |-> update_status_bit(update_zn_flags(r, result), STATUS_CARRY_BIT, carry),
         val |-> result]

\* CPU::ror
ror(r, data) ==
    LET carry == Bit(data, 0)
        result == (data \div 2) + (IF get_status_bit_p(r, STATUS_CARRY_BIT) THEN 128 ELSE 0)
    IN  [r |-> update_status_bit(update_zn_flags(r, result), STATUS_CARRY_BIT, carry),
         val |-> result]

\* CPU::asl_accumulator
asl_accumulator(st) ==
    LET o == asl(st.r, st.r.a) IN { [st EXCEPT !.r = update_a(o.r, o.val)] }

\* CPU::lsr_accumulator
lsr_accumulator(st) ==
    LET o == lsr(st.r, st.r.a) IN { [st EXCEPT !.r = update_a(o.r, o.val)] }

\* CPU::rol_accumulator
rol_accumulator(st) ==
    LET o == rol(st.r, st.r.a) IN { [st EXCEPT !.r = update_a(o.r, o.val)] }

\* CPU::ror_accumulator
ror_accumulator(st) ==
    LET o == ror(st.r, st.r.a) IN { [st EXCEPT !.r = update_a(o.r, o.val)] }

\* CPU::asl_absolute_x
asl_absolute_x(st) ==
    UNION { { LET o == asl(d.st.r, d.val)
              IN  write_memory(clock_cycle([d.st EXCEPT !.r = o.r]), a.val, o.val) :
              d \in read_memory(a.st, a.val) } :
            a \in addr_absolute_x(st, "ReadModify") }

\* `p | (1 << STATUS_BREAK_BIT) | (1 << STATUS_IGNORED_BIT)`
WithBreak(p) == WithBit(WithBit(p, STATUS_BREAK_BIT, TRUE), STATUS_IGNORED_BIT, TRUE)

\* the pulled byte taken as it is
WithoutBreak_keeps(p) == p

\* `data & !(1 << STATUS_BREAK_BIT) & !(1 << STATUS_IGNORED_BIT)`
WithoutBreak(p) == WithBit(WithBit(p, STATUS_BREAK_BIT, FALSE), STATUS_IGNORED_BIT, FALSE)

\* CPU::php
php(st) == { push_stack(clock_cycle(st), WithBreak(st.r.p)) }

\* CPU::plp
plp(st) ==
    { [o.st EXCEPT !.r.p = WithoutBreak(o.val)] : o \in pull_stack(clock_cycle(st)) }

\* CPU::jmp_absolute, when it returns.  `self.registers.pc - 1` is a checked
\* subtraction: with pc = 0 a build without overflow checks wraps it to
\* $FFFF and carries on.
jmp_absolute(st) ==
    LET instr_addr == (st.r.pc + 65535) % 65536
    IN  { [a.st EXCEPT !.r.pc = a.val] :
              a \in { b \in addr_absolute(st) : b.val # instr_addr } }

\* CPU::jmp_absolute, the states in which it panics: on `pc - 1` with pc = 0
\* in a build with overflow checks, and on a jump to its own address
jmp_absolute_panics(st) ==
    LET instr_addr == (st.r.pc + 65535) % 65536
    IN  (IF st.r.pc = 0 THEN {st} ELSE {})
        \cup { a.st : a \in { b \in addr_absolute(st) : b.val = instr_addr } }

\* Emulator::jmp_absolute (src/src/main.rs)
Emulator_jmp_absolute(st) ==
    { [a.st EXCEPT !.r.pc = a.val] : a \in addr_absolute(st) }

\* CPU::jmp_indirect
jmp_indirect(st) ==
    UNION { UNION { { [data_hi.st EXCEPT !.r.pc = Word(data_hi.val, data_lo.val)] :
                      data_hi \in read_memory(data_lo.st, (a.val + 1) % 65536) } :
                    data_lo \in read_memory(a.st, a.val) } :
            a \in addr_absolute(st) }

\* CPU::jsr
jsr(st) ==
    { LET ret_addr == (t.st.r.pc + 65535) % 65536
          ret_lo == ret_addr % 256
          ret_hi == ret_addr \div 256
          pushed == push_stack(push_stack(t.st, ret_hi), ret_lo)
      IN  [clock_cycle(pushed) EXCEPT !.r.pc = t.val] :
          t \in addr_absolute(st) }

\* rts that returns to the address pulled, without adding 1
rts_no_adjust(st) ==
    UNION { { LET ret_addr == Word(ret_hi.val, ret_lo.val)
              IN  clock_cycle(clock_cycle([ret_hi.st EXCEPT !.r.pc = ret_addr])) :
              ret_hi \in pull_stack(ret_lo.st) } :
            ret_lo \in pull_stack(clock_cycle(st)) }

\* CPU::rts
rts(st) ==
    UNION { { LET ret_addr == Word(ret_hi.val, ret_lo.val)
              IN  clock_cycle(clock_cycle([ret_hi.st EXCEPT
                                               !.r.pc = (ret_addr + 1) % 65536])) :
              ret_hi \in pull_stack(ret_lo.st) } :
            ret_lo \in pull_stack(clock_cycle(st)) }

\* CPU::brk
brk(st) ==
    UNION { LET ret_lo == n.st.r.pc % 256
                ret_hi == n.st.r.pc \div 256
                s1 == push_stack(push_stack(n.st, ret_hi), ret_lo)
                s2 == push_stack(s1, WithBreak(s1.r.p))
                s3 == [s2 EXCEPT !.r = update_status_bit(@, STATUS_INTERRUPT_BIT, TRUE)]
            IN  UNION { { [pc_hi.st EXCEPT !.r.pc = Word(pc_hi.val, pc_lo.val)] :
                          pc_hi \in read_memory(pc_lo.st, INTERRUPT_VECTOR_IRQ_HI) } :
                        pc_lo \in read_memory(s3, INTERRUPT_VECTOR_IRQ_LO) } :
            n \in next(st) }

\* rti that adds 1 to the address pulled, as rts does
rti_adjusted(st) ==
    UNION { UNION { { clock_cycle([ret_hi.st EXCEPT
                                       !.r.pc = (Word(ret_hi.val, ret_lo.val) + 1) % 65536]) :
                      ret_hi \in pull_stack(ret_lo.st) } :
                    ret_lo \in pull_stack([p.st EXCEPT !.r.p = WithoutBreak(p.val)]) } :
            p \in pull_stack(clock_cycle(st)) }

\* CPU::rti
rti(st) ==
    UNION { UNION { { clock_cycle([ret_hi.st EXCEPT
                                       !.r.pc = Word(ret_hi.val, ret_lo.val)]) :
                      ret_hi \in pull_stack(ret_lo.st) } :
                    ret_lo \in pull_stack([p.st EXCEPT !.r.p = WithoutBreak(p.val)]) } :
            p \in pull_stack(clock_cycle(st)) }

\* CPU::branch_on_condition: `old as i16 + offset as i16` before the cast
branch_sum(old, offset) == AsI16(old) + AsI8(offset)

\* CPU::branch_on_condition, when it returns.  A sum outside i16 is wrapped
\* by a build without overflow checks.
branch_on_condition(st, cond) ==
    { IF cond
      THEN LET t == clock_cycle(o.st)
               old == t.r.pc
               new == branch_sum(old, o.val) % 65536
               u == IF (old \div 256) # (new \div 256) THEN clock_cycle(t) ELSE t
           IN  [u EXCEPT !.r.pc = new]
      ELSE o.st :
      o \in next(st) }

\* CPU::branch_on_condition, the states in which it panics: the i16 addition
\* overflows in a build with overflow checks
branch_on_condition_panics(st, cond) ==
    { clock_cycle(o.st) :
          o \in { n \in next(st) :
                      cond /\ branch_sum(n.st.r.pc, n.val) \notin -32768 .. 32767 } }

\* CPU::bne
bne(st) == branch_on_condition(st, ~get_status_bit_p(st.r, STATUS_ZERO_BIT))

\* CPU::beq
beq(st) == branch_on_condition(st, get_status_bit_p(st.r, STATUS_ZERO_BIT))

\* adc_binary that leaves the carry flag out of the sum
adc_binary_no_carry(r, m) ==
    LET a == r.a
        sum == a + m
        result == sum % 256
        v == (Bit(a, 7) = Bit(m, 7)) /\ (Bit(a, 7) # Bit(result, 7))
    IN  update_a(update_status_bit(
                     update_status_bit(r, STATUS_CARRY_BIT, sum > 255),
                     STATUS_OVERFLOW_BIT, v), result)

\* CPU::adc, the branch taken with the decimal flag clear
adc_binary(r, m) ==
    LET a == r.a
        c == IF get_status_bit_p(r, STATUS_CARRY_BIT) THEN 1 ELSE 0
        sum == a + m + c
        result == sum % 256
        \* (!(a ^ m) & (a ^ result) & 0x80) != 0
        v == (Bit(a, 7) = Bit(m, 7)) /\ (Bit(a, 7) # Bit(result, 7))
    IN  update_a(update_status_bit(
                     update_status_bit(r, STATUS_CARRY_BIT, sum > 255),
                     STATUS_OVERFLOW_BIT, v), result)

\* adc_decimal that adjusts the low digit only
adc_decimal_low_only(r, m) ==
    LET a == r.a
        c == IF get_status_bit_p(r, STATUS_CARRY_BIT) THEN 1 ELSE 0
        sum == a + m + c
        result == sum % 256
        v == (Bit(a, 7) = Bit(m, 7)) /\ (Bit(a, 7) # Bit(result, 7))
        adj == IF (a % 16) + (m % 16) + c > 9 THEN 6 ELSE 0
        bcd == (result + adj) % 256
        carry == sum > 153
    IN  update_a(update_status_bit(
                     update_status_bit(r, STATUS_CARRY_BIT, carry),
                     STATUS_OVERFLOW_BIT, v), bcd)

\* CPU::adc, the branch taken with the decimal flag set
adc_decimal(r, m) ==
    LET a == r.a
        c == IF get_status_bit_p(r, STATUS_CARRY_BIT) THEN 1 ELSE 0
        sum == a + m + c
        result == sum % 256
        \* (!(a ^ m) & (a ^ result) & 0x80) != 0
        v == (Bit(a, 7) = Bit(m, 7)) /\ (Bit(a, 7) # Bit(result, 7))
        adj == (IF (a % 16) + (m % 16) + c > 9 THEN 6 ELSE 0)
               + (IF sum > 153 THEN 96 ELSE 0)
        bcd == (result + adj) % 256
        carry == sum > 153
    IN  update_a(update_status_bit(
                     update_status_bit(r, STATUS_CARRY_BIT, carry),
                     STATUS_OVERFLOW_BIT, v), bcd)

\* CPU::adc (src/src/cpu.rs): the registers after the call
adc(r, m) ==
    IF get_status_bit_p(r, STATUS_DECIMAL_BIT)
    THEN adc_decimal(r, m)
    ELSE adc_binary(r, m)

\* CPU::adc_immediate
adc_immediate(st) == { [o.st EXCEPT !.r = adc(@, o.val)] : o \in next(st) }

\* Emulator::adc (src/src/main.rs): the registers after the call
Emulator_adc(r, data) ==
    LET carry == IF get_status_bit_p(r, STATUS_CARRY_BIT) THEN 1 ELSE 0
        carry_1 == r.a + data > 255
        result_1 == (r.a + data) % 256
        carry_2 == result_1 + carry > 255
        result == (result_1 + carry) % 256
        \* ((a ^ result) & (data ^ result) & 0x80) != 0
        v == (Bit(r.a, 7) # Bit(result, 7)) /\ (Bit(data, 7) # Bit(result, 7))
    IN  update_a(update_status_bit(
                     update_status_bit(r, STATUS_CARRY_BIT, carry_1 \/ carry_2),
                     STATUS_OVERFLOW_BIT, v), result)

\* sbc_binary that sets the carry only when the difference is positive
sbc_binary_strict(r, m) ==
    LET a == r.a
        c == IF get_status_bit_p(r, STATUS_CARRY_BIT) THEN 1 ELSE 0
        diff == a - m - (1 - c)
        result == diff % 256
        v == (Bit(a, 7) # Bit(m, 7)) /\ (Bit(a, 7) # Bit(result, 7))
    IN  update_a(update_status_bit(
                     update_status_bit(r, STATUS_CARRY_BIT, diff > 0),
                     STATUS_OVERFLOW_BIT, v), result)

\* CPU::sbc, the branch taken with the decimal flag clear
sbc_binary(r, m) ==
    LET a == r.a
        c == IF get_status_bit_p(r, STATUS_CARRY_BIT) THEN 1 ELSE 0
        \* a as i16 - m as i16 - (1 - c)
        diff == a - m - (1 - c)
        \* diff as u8
        result == diff % 256
        \* ((a ^ m) & (a ^ result) & 0x80) != 0
        v == (Bit(a, 7) # Bit(m, 7)) /\ (Bit(a, 7) # Bit(result, 7))
    IN  update_a(update_status_bit(
                     update_status_bit(r, STATUS_CARRY_BIT, diff >= 0),
                     STATUS_OVERFLOW_BIT, v), result)

\* CPU::sbc, the branch taken with the decimal flag set
sbc_decimal(r, m) ==
    LET a == r.a
        c == IF get_status_bit_p(r, STATUS_CARRY_BIT) THEN 1 ELSE 0
        diff == a - m - (1 - c)
        result == diff % 256
        v == (Bit(a, 7) # Bit(m, 7)) /\ (Bit(a, 7) # Bit(result, 7))
        adj == (IF (a % 16) - (m % 16) - (1 - c) < 0 THEN -6 ELSE 0)
               + (IF diff < 0 THEN -96 ELSE 0)
        \* (result as i16).wrapping_add(adj) as u8
        bcd == (result + adj) % 256
        carry == diff >= 0
    IN  update_a(update_status_bit(
                     update_status_bit(r, STATUS_CARRY_BIT, carry),
                     STATUS_OVERFLOW_BIT, v), bcd)

\* CPU::sbc (src/src/cpu.rs): the registers after the call
sbc(r, m) ==
    IF get_status_bit_p(r, STATUS_DECIMAL_BIT)
    THEN sbc_decimal(r, m)
    ELSE sbc_binary(r, m)

\* Emulator::sbc (src/src/main.rs): self.adc(!data)
Emulator_sbc(r, data) == Emulator_adc(r, 255 - data)

\* the compare of a register with data: the two overflowing_add calls
compare(r, reg, data) ==
    LET carry_1 == reg + (255 - data) > 255
        result_1 == (reg + (255 - data)) % 256
        carry_2 == result_1 + 1 > 255
        result == (result_1 + 1) % 256
    IN  update_zn_flags(update_status_bit(r, STATUS_CARRY_BIT, carry_1 \/ carry_2),
                        result)

\* cmp that takes the carry of the first addition only
cmp_first_carry(r, data) ==
    LET carry_1 == r.a + (255 - data) > 255
        result == (r.a + (255 - data) + 1) % 256
    IN  update_zn_flags(update_status_bit(r, STATUS_CARRY_BIT, carry_1), result)

\* CPU::cmp
cmp(r, data) == compare(r, r.a, data)

\* CPU::cpx
cpx(r, data) == compare(r, r.x, data)

\* CPU::cpy
cpy(r, data) == compare(r, r.y, data)

\* the opcodes of CPU::run that a memory image of ImageBytes holds
Decoded == {234, 169, 170, 232, 72, 104}

\* every opcode of CPU::run modelled here
Instructions ==
    Decoded \cup {0, 8, 10, 30, 32, 40, 42, 64, 74, 76, 96, 105, 106, 108,
                  133, 145, 153, 157, 177, 185, 189, 208, 240}

\* CPU::run, the match on the fetched opcode
Dispatch(instruction, st) ==
    CASE instruction = 234 -> nop(st)
      [] instruction = 169 -> lda_immediate(st)
      [] instruction = 170 -> tax(st)
      [] instruction = 232 -> inx(st)
      [] instruction = 72  -> pha(st)
      [] instruction = 104 -> pla(st)
      [] instruction = 0   -> brk(st)
      [] instruction = 8   -> php(st)
      [] instruction = 10  -> asl_accumulator(st)
      [] instruction = 30  -> asl_absolute_x(st)
      [] instruction = 32  -> jsr(st)
      [] instruction = 40  -> plp(st)
      [] instruction = 42  -> rol_accumulator(st)
      [] instruction = 64  -> rti(st)
      [] instruction = 74  -> lsr_accumulator(st)
      [] instruction = 76  -> jmp_absolute(st)
      [] instruction = 96  -> rts(st)
      [] instruction = 105 -> adc_immediate(st)
      [] instruction = 106 -> ror_accumulator(st)
      [] instruction = 108 -> jmp_indirect(st)
      [] instruction = 133 -> sta_zeropage(st)
      [] instruction = 145 -> sta_postindexed_indirect_zeropage_y(st)
      [] instruction = 153 -> sta_absolute_y(st)
      [] instruction = 157 -> sta_absolute_x(st)
      [] instruction = 161 -> lda_preindexed_indirect_zeropage_x(st)
      [] instruction = 177 -> lda_postindexed_indirect_zeropage_y(st)
      [] instruction = 181 -> lda_zeropage_x(st)
      [] instruction = 182 -> ldx_zeropage_y(st)
      [] instruction = 185 -> lda_absolute_y(st)
      [] instruction = 189 -> lda_absolute_x(st)
      [] instruction = 208 -> bne(st)
      [] instruction = 240 -> beq(st)

\* CPU::run, the states in which the instruction fetched panics
Panics(instruction, st) ==
    CASE instruction = 76  -> jmp_absolute_panics(st)
      [] instruction = 208 ->
             branch_on_condition_panics(st, ~get_status_bit_p(st.r, STATUS_ZERO_BIT))
      [] instruction = 240 ->
             branch_on_condition_panics(st, get_status_bit_p(st.r, STATUS_ZERO_BIT))
      [] OTHER -> {}

\* CPU::run: the method the match on the fetched opcode calls, by opcode
\* byte; the last arm (x => unreachable!) takes every other byte
Handler(instruction) ==
    CASE instruction = 234 -> "nop"
      [] instruction = 105 -> "adc_immediate"
      [] instruction = 101 -> "adc_zeropage"
      [] instruction = 117 -> "adc_zeropage_x"
      [] instruction = 109 -> "adc_absolute"
      [] instruction = 125 -> "adc_absolute_x"
      [] instruction = 121 -> "adc_absolute_y"
      [] instruction = 97  -> "adc_preindexed_indirect_zeropage_x"
      [] instruction = 113 -> "adc_postindexed_indirect_zeropage_y"
      [] instruction = 233 -> "sbc_immediate"
      [] instruction = 229 -> "sbc_zeropage"
      [] instruction = 245 -> "sbc_zeropage_x"
      [] instruction = 237 -> "sbc_absolute"
      [] instruction = 253 -> "sbc_absolute_x"
      [] instruction = 249 -> "sbc_absolute_y"
      [] instruction = 225 -> "sbc_preindexed_indirect_zeropage_x"
      [] instruction = 241 -> "sbc_postindexed_indirect_zeropage_y"
      [] instruction = 41  -> "and_immediate"
      [] instruction = 37  -> "and_zeropage"
      [] instruction = 53  -> "and_zeropage_x"
      [] instruction = 45  -> "and_absolute"
      [] instruction = 61  -> "and_absolute_x"
      [] instruction = 57  -> "and_absolute_y"
      [] instruction = 33  -> "and_preindexed_indirect_zeropage_x"
      [] instruction = 49  -> "and_postindexed_indirect_zeropage_y"
      [] instruction = 9   -> "ora_immediate"
      [] instruction = 5   -> "ora_zeropage"
      [] instruction = 21  -> "ora_zeropage_x"
      [] instruction = 13  -> "ora_absolute"
      [] instruction = 29  -> "ora_absolute_x"
      [] instruction = 25  -> "ora_absolute_y"
      [] instruction = 1   -> "ora_preindexed_indirect_zeropage_x"
      [] instruction = 17  -> "ora_postindexed_indirect_zeropage_y"
      [] instruction = 73  -> "eor_immediate"
      [] instruction = 69  -> "eor_zeropage"
      [] instruction = 85  -> "eor_zeropage_x"
      [] instruction = 77  -> "eor_absolute"
      [] instruction = 93  -> "eor_absolute_x"
      [] instruction = 89  -> "eor_absolute_y"
      [] instruction = 65  -> "eor_preindexed_indirect_zeropage_x"
      [] instruction = 81  -> "eor_postindexed_indirect_zeropage_y"
      [] instruction = 76  -> "jmp_absolute"
      [] instruction = 108 -> "jmp_indirect"
      [] instruction = 32  -> "jsr"
      [] instruction = 96  -> "rts"
      [] instruction = 169 -> "lda_immediate"
      [] instruction = 165 -> "lda_zeropage"
      [] instruction = 181 -> "lda_zeropage_x"
      [] instruction = 173 -> "lda_absolute"
      [] instruction = 189 -> "lda_absolute_x"
      [] instruction = 185 -> "lda_absolute_y"
      [] instruction = 161 -> "lda_preindexed_indirect_zeropage_x"
      [] instruction = 177 -> "lda_postindexed_indirect_zeropage_y"
      [] instruction = 162 -> "ldx_immediate"
      [] instruction = 166 -> "ldx_zeropage"
      [] instruction = 182 -> "ldx_zeropage_y"
      [] instruction = 174 -> "ldx_absolute"
      [] instruction = 190 -> "ldx_absolute_y"
      [] instruction = 160 -> "ldy_immediate"
      [] instruction = 164 -> "ldy_zeropage"
      [] instruction = 180 -> "ldy_zeropage_x"
      [] instruction = 172 -> "ldy_absolute"
      [] instruction = 188 -> "ldy_absolute_x"
      [] instruction = 133 -> "sta_zeropage"
      [] instruction = 149 -> "sta_zeropage_x"
      [] instruction = 141 -> "sta_absolute"
      [] instruction = 157 -> "sta_absolute_x"
      [] instruction = 153 -> "sta_absolute_y"
      [] instruction = 129 -> "sta_preindexed_indirect_zeropage_x"
      [] instruction = 145 -> "sta_postindexed_indirect_zeropage_y"
      [] instruction = 134 -> "stx_zeropage"
      [] instruction = 150 -> "stx_zeropage_y"
      [] instruction = 142 -> "stx_absolute"
      [] instruction = 132 -> "sty_zeropage"
      [] instruction = 148 -> "sty_zeropage_x"
      [] instruction = 140 -> "sty_absolute"
      [] instruction = 201 -> "cmp_immediate"
      [] instruction = 197 -> "cmp_zeropage"
      [] instruction = 213 -> "cmp_zeropage_x"
      [] instruction = 205 -> "cmp_absolute"
      [] instruction = 221 -> "cmp_absolute_x"
      [] instruction = 217 -> "cmp_absolute_y"
      [] instruction = 193 -> "cmp_preindexed_indirect_zeropage_x"
      [] instruction = 209 -> "cmp_postindexed_indirect_zeropage_y"
      [] instruction = 224 -> "cpx_immediate"
      [] instruction = 228 -> "cpx_zeropage"
      [] instruction = 236 -> "cpx_absolute"
      [] instruction = 192 -> "cpy_immediate"
      [] instruction = 196 -> "cpy_zeropage"
      [] instruction = 204 -> "cpy_absolute"
      [] instruction = 170 -> "tax"
      [] instruction = 168 -> "tay"
      [] instruction = 186 -> "tsx"
      [] instruction = 138 -> "txa"
      [] instruction = 154 -> "txs"
      [] instruction = 152 -> "tya"
      [] instruction = 144 -> "bcc"
      [] instruction = 176 -> "bcs"
      [] instruction = 240 -> "beq"
      [] instruction = 48  -> "bmi"
      [] instruction = 208 -> "bne"
      [] instruction = 16  -> "bpl"
      [] instruction = 80  -> "bvc"
      [] instruction = 112 -> "bvs"
      [] instruction = 24  -> "clc"
      [] instruction = 216 -> "cld"
      [] instruction = 88  -> "cli"
      [] instruction = 184 -> "clv"
      [] instruction = 56  -> "sec"
      [] instruction = 248 -> "sed"
      [] instruction = 120 -> "sei"
      [] instruction = 202 -> "dex"
      [] instruction = 136 -> "dey"
      [] instruction = 232 -> "inx"
      [] instruction = 200 -> "iny"
      [] instruction = 72  -> "pha"
      [] instruction = 8   -> "php"
      [] instruction = 104 -> "pla"
      [] instruction = 40  -> "plp"
      [] instruction = 0   -> "brk"
      [] instruction = 64  -> "rti"
      [] instruction = 36  -> "bit_zeropage"
      [] instruction = 44  -> "bit_absolute"
      [] instruction = 10  -> "asl_accumulator"
      [] instruction = 6   -> "asl_zeropage"
      [] instruction = 22  -> "asl_zeropage_x"
      [] instruction = 14  -> "asl_absolute"
      [] instruction = 30  -> "asl_absolute_x"
      [] instruction = 74  -> "lsr_accumulator"
      [] instruction = 70  -> "lsr_zeropage"
      [] instruction = 86  -> "lsr_zeropage_x"
      [] instruction = 78  -> "lsr_absolute"
      [] instruction = 94  -> "lsr_absolute_x"
      [] instruction = 42  -> "rol_accumulator"
      [] instruction = 38  -> "rol_zeropage"
      [] instruction = 54  -> "rol_zeropage_x"
      [] instruction = 46  -> "rol_absolute"
      [] instruction = 62  -> "rol_absolute_x"
      [] instruction = 106 -> "ror_accumulator"
      [] instruction = 102 -> "ror_zeropage"
      [] instruction = 118 -> "ror_zeropage_x"
      [] instruction = 110 -> "ror_absolute"
      [] instruction = 126 -> "ror_absolute_x"
      [] instruction = 230 -> "inc_zeropage"
      [] instruction = 246 -> "inc_zeropage_x"
      [] instruction = 238 -> "inc_absolute"
      [] instruction = 254 -> "inc_absolute_x"
      [] instruction = 198 -> "dec_zeropage"
      [] instruction = 214 -> "dec_zeropage_x"
      [] instruction = 206 -> "dec_absolute"
      [] instruction = 222 -> "dec_absolute_x"
      [] OTHER -> "unreachable"

\* CPU::new
CPU_new(memory) == [r |-> Registers_new, mem |-> memory, cycles |-> 0]

----------------------------------------------------------------------------
(* The controller port: src/src/cpu/controller.rs *)

CONTROLLER_BUTTON_A == 0
CONTROLLER_BUTTON_B == 1
CONTROLLER_BUTTON_SELECT == 2
CONTROLLER_BUTTON_START == 3
CONTROLLER_BUTTON_UP == 4
CONTROLLER_BUTTON_DOWN == 5
CONTROLLER_BUTTON_LEFT == 6
CONTROLLER_BUTTON_RIGHT == 7

\* Controller::new
Controller_new ==
    [strobe |-> FALSE, selected_button |-> 0,
     button_states |-> [i \in CONTROLLER_BUTTON_A .. CONTROLLER_BUTTON_RIGHT |-> FALSE]]

\* Controller::write that leaves the selected button where it is
Controller_write_keeps(c, value) == [c EXCEPT !.strobe = (value % 2) = 1]

\* Controller::write
Controller_write(c, value) ==
    LET strobe == (value % 2) = 1
    IN  [c EXCEPT !.strobe = strobe,
                  !.selected_button = IF strobe THEN 0 ELSE @]

\* Controller::read that goes on selecting past the last button
Controller_read_unbounded(c) ==
    IF c.strobe
    THEN [self |-> c, value |-> IF c.button_states[CONTROLLER_BUTTON_A] THEN 1 ELSE 0]
    ELSE [self |-> [c EXCEPT !.selected_button = @ + 1],
          value |-> IF c.selected_button >= 8 THEN 1
                    ELSE IF c.button_states[c.selected_button] THEN 1 ELSE 0]

\* Controller::read
Controller_read(c) ==
    IF c.strobe
    THEN [self |-> c, value |-> IF c.button_states[CONTROLLER_BUTTON_A] THEN 1 ELSE 0]
    ELSE IF c.selected_button >= 8
    THEN [self |-> c, value |-> 1]
    ELSE [self |-> [c EXCEPT !.selected_button = @ + 1],
          value |-> IF c.button_states[c.selected_button] THEN 1 ELSE 0]

----------------------------------------------------------------------------
(* The CPU's memory map: src/src/cpu/bus.rs, and the older                  *)
(* src/src/cpu/cpu_memory.rs and src/src/memory_map.rs                      *)

\* src/src/nes_rom.rs
PRG_ROM_CHUNK_SIZE == 16384

\* A NesRom whose prg_rom holds len bytes (the fields the memory map uses)
NesRom(len) == [prg_rom |-> [len |-> len]]

\* the byte at index i of every prg_rom: the bytes of a bank differ from
\* those 16 KiB further on
prg_rom_byte(i) == i % 251

\* rom.prg_rom[i]
prg_rom(rom, i) == prg_rom_byte(i)

\* Bus::new (the PPU and the cycle count are variables of their own)
Bus_new(rom) ==
    [struct |-> "Bus", sram |-> Ram_new, rom |-> rom, prg_ram |-> Ram_new,
     controller |-> Controller_new]

\* CpuMemory::new
CpuMemory_new(rom) ==
    [struct |-> "CpuMemory", sram |-> Ram_new, rom |-> rom, prg_ram |-> Ram_new]

\* MemoryMap::new
MemoryMap_new(rom) ==
    [struct |-> "MemoryMap", sram |-> Ram_new, rom |-> rom, prg_ram |-> Ram_new]

\* the PPU register an address of $2000-$3FFF selects
register(a) == (a - 8192) % 8

\* what a read or a write leaves: the memory map, the PPU, the value read
Outcome(b, p, v) == [bus |-> b, ppu |-> p, value |-> v]

\* Bus::read panics
Bus_read_panics(b, p, a) ==
    /\ a \in 8192 .. 16383
    /\ \/ register(a) \notin {2, 7}
       \/ register(a) = 7 /\ read_ppu_data_panics(p)

\* Bus::read
Bus_read(b, p, a) ==
    IF a < 8192 THEN Outcome(b, p, Ram_read(b.sram, a % 2048))
    ELSE IF a \in 8192 .. 16383
    THEN IF register(a) = 2
         THEN Outcome(b, read_ppu_status(p).self, read_ppu_status(p).value)
         ELSE Outcome(b, read_ppu_data(p).self, read_ppu_data(p).value)
    ELSE IF a = 16406
    THEN Outcome([b EXCEPT !.controller = Controller_read(@).self], p,
                 Controller_read(b.controller).value)
    ELSE IF a = 16407 THEN Outcome(b, p, 0)
    ELSE IF a \in 24576 .. 32767 THEN Outcome(b, p, Ram_read(b.prg_ram, a - 24576))
    ELSE IF a >= 32768
    THEN Outcome(b, p, prg_rom(b.rom, (a - 32768) % b.rom.prg_rom.len))
    ELSE Outcome(b, p, 0)

\* Bus::write panics
Bus_write_panics(b, p, a, v) ==
    \/ /\ a \in 8192 .. 16383
       /\ \/ register(a) \in {2, 4}
          \/ register(a) = 7 /\ write_ppu_data_panics(p)
    \/ a \in 16408 .. 24575
    \/ a >= 32768

\* Bus::write
Bus_write(b, p, a, v) ==
    IF a < 8192 THEN Outcome([b EXCEPT !.sram = Ram_write(@, a % 2048, v)], p, 0)
    ELSE IF a \in 8192 .. 16383
    THEN CASE register(a) = 0 -> Outcome(b, write_ppu_ctrl(p, v), 0)
           [] register(a) = 1 -> Outcome(b, write_ppu_mask(p, v), 0)
           [] register(a) = 3 -> Outcome(b, p, 0)
           [] register(a) = 5 -> Outcome(b, write_ppu_scroll(p, v), 0)
           [] register(a) = 6 -> Outcome(b, write_ppu_addr(p, v), 0)
           [] register(a) = 7 -> Outcome(b, write_ppu_data(p, v), 0)
    ELSE IF a = 16404 THEN Outcome(b, p, 0)
    ELSE IF a = 16406
    THEN Outcome([b EXCEPT !.controller = Controller_write(@, v)], p, 0)
    ELSE IF a \in 16384 .. 16407 THEN Outcome(b, p, 0)
    ELSE Outcome([b EXCEPT !.prg_ram = Ram_write(@, a - 24576, v)], p, 0)

\* Bus::reset_vector with the two bytes the other way round
Bus_reset_vector_swapped(b) ==
    LET hi == prg_rom(b.rom, (INTERRUPT_VECTOR_RES_HI - 32768) % b.rom.prg_rom.len)
        lo == prg_rom(b.rom, (INTERRUPT_VECTOR_RES_LO - 32768) % b.rom.prg_rom.len)
    IN  lo * 256 + hi

\* Bus::reset_vector
Bus_reset_vector(b) ==
    LET hi == prg_rom(b.rom, (INTERRUPT_VECTOR_RES_HI - 32768) % b.rom.prg_rom.len)
        lo == prg_rom(b.rom, (INTERRUPT_VECTOR_RES_LO - 32768) % b.rom.prg_rom.len)
    IN  hi * 256 + lo

\* CpuMemory::read panics
CpuMemory_read_panics(b, p, a) ==
    \/ /\ a \in 8192 .. 16383
       /\ \/ register(a) \notin {2, 7}
          \/ register(a) = 7 /\ read_ppu_data_panics(p)
    \/ a \in 16384 .. 24575

\* CpuMemory::read
CpuMemory_read(b, p, a) ==
    IF a < 8192 THEN Outcome(b, p, Ram_read(b.sram, a % 2048))
    ELSE IF a \in 8192 .. 16383
    THEN IF register(a) = 2
         THEN Outcome(b, read_ppu_status(p).self, read_ppu_status(p).value)
         ELSE Outcome(b, read_ppu_data(p).self, read_ppu_data(p).value)
    ELSE IF a \in 24576 .. 32767 THEN Outcome(b, p, Ram_read(b.prg_ram, a - 24576))
    ELSE Outcome(b, p, prg_rom(b.rom, (a - 32768) % b.rom.prg_rom.len))

\* MemoryMap::read
MemoryMap_read(b, a) ==
    IF a < 8192 THEN Ram_read(b.sram, a % 2048)
    ELSE IF a \in 24576 .. 32767 THEN Ram_read(b.prg_ram, a - 24576)
    ELSE IF a >= 32768 THEN prg_rom(b.rom, (a - 32768) % b.rom.prg_rom.len)
    ELSE 0

\* MemoryMap::write
MemoryMap_write(b, a, v) ==
    IF a < 8192 THEN [b EXCEPT !.sram = Ram_write(@, a % 2048, v)]
    ELSE IF a \in 24576 .. 32767 THEN [b EXCEPT !.prg_ram = Ram_write(@, a - 24576, v)]
    ELSE b

\* MemoryMap::reset_vector
MemoryMap_reset_vector(b) ==
    MemoryMap_read(b, 65533) * 256 + MemoryMap_read(b, 65532)

----------------------------------------------------------------------------
(* Inputs *)

Mirrorings == {"Vertical", "Horizontal"}

\* dot counts handed to Ppu::tick: what one CPU cycle and one long
\* instruction forward, a full scanline, and more than a scanline
TickAmounts == {3, 24, SCANLINE_CYCLES, SCANLINE_CYCLES + 1, MaxTick}

\* CPU cycles between two calls of Bus::tick
CpuDeltas == 1..8

\* values written to PPUCTRL: NMI enable (bit 7) and VRAM increment (bit 2)
CtrlValues == {0, 4, 128, 132}

\* The last call: its name, the byte it was given (arg), the byte it returned
\* (value) and the bool it returned (flag); a field the call does not have
\* is 0 or FALSE.
Ret(call, arg, value, flag) ==
    [call |-> call, arg |-> arg, value |-> value, flag |-> flag]

----------------------------------------------------------------------------
(* Initial state: Bus::new / Ppu::new, before any call *)

Init ==
    /\ ppu \in {Ppu_new(m) : m \in Mirrorings}
    /\ bus_cycle = 0
    /\ bus = Bus_new(NesRom(PRG_ROM_CHUNK_SIZE))
    /\ cpu = Registers_new
    /\ mem = Ram_new
    /\ cycles = 0
    /\ ops = 0
    /\ ret = Ret("new", 0, 0, FALSE)
    /\ aborted = FALSE

----------------------------------------------------------------------------
(* PPU timing operations *)

Tick(n) ==
    /\ ~aborted
    /\ ppu' = Ppu_tick(ppu, n)
    /\ ret' = Ret("tick", 0, 0, FALSE)
    /\ UNCHANGED <<bus, bus_cycle, cpu, mem, cycles, ops, aborted>>

PollNmi ==
    /\ ~aborted
    /\ ppu' = poll_nmi(ppu).self
    /\ ret' = Ret("poll_nmi", 0, 0, poll_nmi(ppu).value)
    /\ UNCHANGED <<bus, bus_cycle, cpu, mem, cycles, ops, aborted>>

PollNewFrame ==
    /\ ~aborted
    /\ ppu' = poll_new_frame(ppu).self
    /\ ret' = Ret("poll_new_frame", 0, 0, poll_new_frame(ppu).value)
    /\ UNCHANGED <<bus, bus_cycle, cpu, mem, cycles, ops, aborted>>

WritePpuCtrl(v) ==
    /\ ~aborted
    /\ ppu' = write_ppu_ctrl(ppu, v)
    /\ ret' = Ret("write_ppu_ctrl", v, 0, FALSE)
    /\ UNCHANGED <<bus, bus_cycle, cpu, mem, cycles, ops, aborted>>

ReadPpuStatus ==
    /\ ~aborted
    /\ ppu' = read_ppu_status(ppu).self
    /\ ret' = Ret("read_ppu_status", 0, read_ppu_status(ppu).value, FALSE)
    /\ UNCHANGED <<bus, bus_cycle, cpu, mem, cycles, ops, aborted>>

NextTiming ==
    \/ \E n \in TickAmounts : Tick(n)
    \/ PollNmi
    \/ PollNewFrame
    \/ \E v \in CtrlValues : WritePpuCtrl(v)
    \/ ReadPpuStatus

\* The PPU driven directly through its public timing interface.
SpecTiming == Init /\ [][NextTiming]_vars

----------------------------------------------------------------------------
(* The PPU driven by the bus only *)

BusTick(d) ==
    /\ ~aborted
    /\ bus_cycle + d <= MaxCpuCycle
    /\ bus_cycle' = Bus_tick(bus_cycle, ppu, bus_cycle + d).cycle
    /\ ppu' = Bus_tick(bus_cycle, ppu, bus_cycle + d).ppu
    /\ ret' = Ret("tick", 0, 0, FALSE)
    /\ UNCHANGED <<bus, cpu, mem, cycles, ops, aborted>>

NextBus == \E d \in CpuDeltas : BusTick(d)

SpecBus == Init /\ [][NextBus]_vars

----------------------------------------------------------------------------
(* The PPU registers, driven through $2000-$2007 *)

\* bytes written to PPUADDR: pattern table, nametable, the unmapped mirror
\* at $3000, palette, and a byte with the top two bits set
AddrBytes == {0, 16, 32, 48, 63, 255}

\* bytes written to PPUSCROLL and PPUDATA
DataBytes == {165}

\* k calls of Ppu::tick(n)
RECURSIVE RunTicks(_, _, _)
RunTicks(p, n, k) ==
    IF k = 0 THEN p
    ELSE IF k = 1 THEN Ppu_tick(p, n)
    ELSE LET half == RunTicks(p, n, k \div 2)
         IN  IF half.scanline >= 0     \* evaluate the first half first
             THEN RunTicks(half, n, k - (k \div 2))
             ELSE half

\* The PPU as Ppu::new leaves it, or at the moment it has entered VBlank
\* (240 scanlines after construction), with the NMI disabled or enabled
\* (PPUCTRL = $80 written right after construction) and so pending.
InitReg ==
    /\ ppu \in {Ppu_new(m) : m \in Mirrorings}
               \cup {RunTicks(write_ppu_ctrl(Ppu_new(m), c),
                               SCANLINE_CYCLES + 1, VISIBLE_SCANLIENS) :
                         m \in Mirrorings, c \in {0, 128}}
    /\ bus_cycle = 0
    /\ bus = Bus_new(NesRom(PRG_ROM_CHUNK_SIZE))
    /\ cpu = Registers_new
    /\ mem = Ram_new
    /\ cycles = 0
    /\ ops = 0
    /\ ret = Ret("new", 0, 0, FALSE)
    /\ aborted = FALSE

\* one more register operation of a bounded run
Budget == ops < MaxOps /\ ops' = ops + 1

RegReadPpuStatus ==
    /\ ~aborted
    /\ Budget
    /\ ppu' = read_ppu_status(ppu).self
    /\ ret' = Ret("read_ppu_status", 0, read_ppu_status(ppu).value, FALSE)
    /\ UNCHANGED <<bus, bus_cycle, cpu, mem, cycles, aborted>>

RegWritePpuCtrl(v) ==
    /\ ~aborted
    /\ Budget
    /\ ppu' = write_ppu_ctrl(ppu, v)
    /\ ret' = Ret("write_ppu_ctrl", v, 0, FALSE)
    /\ UNCHANGED <<bus, bus_cycle, cpu, mem, cycles, aborted>>

WritePpuScroll(v) ==
    /\ ~aborted
    /\ Budget
    /\ ppu' = write_ppu_scroll(ppu, v)
    /\ ret' = Ret("write_ppu_scroll", v, 0, FALSE)
    /\ UNCHANGED <<bus, bus_cycle, cpu, mem, cycles, aborted>>

WritePpuAddr(v) ==
    /\ ~aborted
    /\ Budget
    /\ ppu' = write_ppu_addr(ppu, v)
    /\ ret' = Ret("write_ppu_addr", v, 0, FALSE)
    /\ UNCHANGED <<bus, bus_cycle, cpu, mem, cycles, aborted>>

ReadPpuData ==
    /\ ~aborted
    /\ Budget
    /\ IF read_ppu_data_panics(ppu)
       THEN /\ aborted' = TRUE
            /\ ret' = Ret("read_ppu_data", 0, 0, FALSE)
            /\ UNCHANGED ppu
       ELSE /\ ppu' = read_ppu_data(ppu).self
            /\ ret' = Ret("read_ppu_data", 0, read_ppu_data(ppu).value, FALSE)
            /\ UNCHANGED aborted
    /\ UNCHANGED <<bus, bus_cycle, cpu, mem, cycles>>

WritePpuData(v) ==
    /\ ~aborted
    /\ Budget
    /\ IF write_ppu_data_panics(ppu)
       THEN /\ aborted' = TRUE
            /\ UNCHANGED ppu
       ELSE /\ ppu' = write_ppu_data(ppu, v)
            /\ UNCHANGED aborted
    /\ ret' = Ret("write_ppu_data", v, 0, FALSE)
    /\ UNCHANGED <<bus, bus_cycle, cpu, mem, cycles>>

NextReg ==
    \/ RegReadPpuStatus
    \/ \E v \in {0, 4} : RegWritePpuCtrl(v)
    \/ \E v \in DataBytes : WritePpuScroll(v)
    \/ \E v \in AddrBytes : WritePpuAddr(v)
    \/ ReadPpuData
    \/ \E v \in DataBytes : WritePpuData(v)

SpecReg == InitReg /\ [][NextReg]_vars

----------------------------------------------------------------------------
(* The CPU running a loaded memory image *)

\* the reset vector bytes of the loaded image: $0400 and $C000
VectorHi == {4, 192}

Machine == [r |-> cpu, mem |-> mem, cycles |-> cycles]

\* CPU::new(memory, clock_speed) on an image whose bytes at $FFFC/$FFFD are
\* known; the other bytes of the image are fixed as they are read.
InitCpu ==
    /\ ppu = Ppu_new("Vertical")
    /\ bus_cycle = 0
    /\ bus = Bus_new(NesRom(PRG_ROM_CHUNK_SIZE))
    /\ \E hi \in VectorHi :
          LET m == CPU_new([k \in {INTERRUPT_VECTOR_RES_LO, INTERRUPT_VECTOR_RES_HI} |->
                               IF k = INTERRUPT_VECTOR_RES_HI THEN hi ELSE 0])
          IN  cpu = m.r /\ mem = m.mem /\ cycles = m.cycles
    /\ ops = 0
    /\ ret = Ret("new", 0, 0, FALSE)
    /\ aborted = FALSE

\* One iteration of the loop of CPU::run that fetches a decoded opcode.
Exec(instruction) ==
    /\ ~aborted
    /\ cycles < MaxCycles
    /\ \E o \in next(Machine) :
          /\ o.val = instruction
          /\ \E t \in Dispatch(instruction, o.st) :
                /\ cpu' = t.r
                /\ mem' = t.mem
                /\ cycles' = t.cycles
    /\ ret' = Ret("run", 0, instruction, FALSE)
    /\ UNCHANGED <<bus, ppu, bus_cycle, ops, aborted>>

\* One iteration of the loop of CPU::run that fetches a byte outside the
\* match: unreachable!() panics.
Invalid ==
    /\ ~aborted
    /\ cycles < MaxCycles
    /\ \E o \in next(Machine) :
          /\ o.val \notin Decoded
          /\ cpu' = o.st.r
          /\ mem' = o.st.mem
          /\ cycles' = o.st.cycles
          /\ ret' = Ret("run", 0, o.val, FALSE)
    /\ aborted' = TRUE
    /\ UNCHANGED <<bus, ppu, bus_cycle, ops>>

NextCpu ==
    \/ \E instruction \in Decoded : Exec(instruction)
    \/ Invalid

SpecCpu == InitCpu /\ [][NextCpu]_vars

----------------------------------------------------------------------------
(* The CPU executing the instructions of a short program *)

\* addresses of the first instruction: ordinary code, the spec's branch
\* example, the two sides of $8000, and the last byte of the address space
StartPcs == {1024, 33021, 32752, 32773, 65535}

\* operand bytes: small and large offsets of either sign, page numbers, and
\* the low byte $FF of a pointer at the end of a page
OperandBytes == {0, 5, 16, 128, 240, 255}

\* stack pointers: where one, two or three pushes wrap, where a pull wraps
\* (PHA and JSR are run from every stack pointer)
StackPointers == {0, 1, 253, 255}

\* index register values: none, no page crossed, page crossed
IndexValues == {0, 1, 255}

\* status bytes: all flags clear, Z, and C Z I D V N
FlagBytes == {0, 2, 207}

\* bytes of an instruction: opcode and operand
Length(instruction) ==
    IF instruction \in {30, 32, 76, 108, 153, 157, 185, 189} THEN 3
    ELSE IF instruction \in {105, 133, 145, 161, 169, 177, 181, 182, 208, 240} THEN 2
    ELSE 1

\* the image holding `bytes` from address pc on
Program(pc, bytes) ==
    [k \in {(pc + i - 1) % 65536 : i \in 1 .. Len(bytes)} |->
         bytes[((k + 65536 - pc) % 65536) + 1]]

\* the image f with the bytes of g laid over it
Overlay(f, g) ==
    [k \in DOMAIN f \cup DOMAIN g |-> IF k \in DOMAIN g THEN g[k] ELSE f[k]]

\* What else the image holds for the instruction at pc: an RTS at the target
\* of a JSR; the IRQ vector $9000 and an RTI there for a BRK; the matching
\* pull after a push; and for a JMP (indirect) through $xxFF the byte $12 at
\* $xx00, which no other byte of the image equals.
Fixture(instruction, pc, b1, b2) ==
    CASE instruction = 32  -> Program(Word(b2, b1), <<96>>)
      [] instruction = 0   -> Overlay(Program(INTERRUPT_VECTOR_IRQ_LO, <<0, 144>>),
                                      Program(36864, <<64>>))
      [] instruction = 72  -> Program((pc + 1) % 65536, <<104>>)
      [] instruction = 8   -> Program((pc + 1) % 65536, <<40>>)
      [] instruction = 108 -> IF b1 = 255 THEN Program(Word(b2, 0), <<18>>)
                              ELSE Ram_new
      [] OTHER -> Ram_new

\* CPU::run about to fetch the instruction at pc, the registers as the program
\* so far has left them; the bytes of the image not given here are fixed as
\* they are read.
InitInstr ==
    /\ ppu = Ppu_new("Vertical")
    /\ bus_cycle = 0
    /\ bus = Bus_new(NesRom(PRG_ROM_CHUNK_SIZE))
    /\ \E instruction \in Instructions :
       \E pc \in (IF instruction \in {0, 32, 76, 108, 208, 240}
                  THEN StartPcs ELSE {1024}) :
       \E b1 \in (IF Length(instruction) >= 2 THEN OperandBytes ELSE {0}) :
       \E b2 \in (IF Length(instruction) >= 3 THEN OperandBytes ELSE {0}) :
       \E s \in (IF instruction \in {32, 72} THEN 0 .. 255
                 ELSE IF instruction \in {0, 8, 32, 40, 64, 96, 104}
                 THEN StackPointers ELSE {253}) :
       \E x \in (IF instruction \in {30, 157, 189} THEN IndexValues ELSE {0}) :
       \E y \in (IF instruction \in {145, 153, 177, 185} THEN IndexValues ELSE {0}) :
       \E p \in (IF instruction \in {0, 8, 42, 106, 208, 240}
                 THEN FlagBytes ELSE {0}) :
          /\ cpu = [a |-> 129, x |-> x, y |-> y, s |-> s, pc |-> pc, p |-> p]
          /\ mem = Overlay(Fixture(instruction, pc, b1, b2),
                           Program(pc, SubSeq(<<instruction, b1, b2>>, 1,
                                              Length(instruction))))
    /\ cycles = 0
    /\ ops = 0
    /\ ret = Ret("new", 0, 0, FALSE)
    /\ aborted = FALSE

\* One iteration of the loop of CPU::run, on an opcode the image gives.
Step(instruction) ==
    /\ ~aborted
    /\ ops < MaxInstrs
    /\ cpu.pc \in DOMAIN mem
    /\ \E o \in next(Machine) :
          /\ o.val = instruction
          /\ \/ \E t \in Dispatch(instruction, o.st) :
                   /\ cpu' = t.r
                   /\ mem' = t.mem
                   /\ cycles' = t.cycles
                   /\ UNCHANGED aborted
             \/ \E t \in Panics(instruction, o.st) :
                   /\ cpu' = t.r
                   /\ mem' = t.mem
                   /\ cycles' = t.cycles
                   /\ aborted' = TRUE
    /\ ops' = ops + 1
    /\ ret' = Ret("run", cpu.pc, instruction, FALSE)
    /\ UNCHANGED <<bus, ppu, bus_cycle>>

NextInstr == \E instruction \in Instructions : Step(instruction)

SpecInstr == InitInstr /\ [][NextInstr]_vars

----------------------------------------------------------------------------
(* The adder, applied to every accumulator and operand *)

\* status bytes of the adder's inputs: every combination of C and D
AluFlags == {0, 1, 8, 9}

\* The registers as a program has left them before an ADC $10: any
\* accumulator, the carry and decimal flags as set by SEC/CLC and SED/CLD,
\* and any operand byte at $0010.
InitAlu ==
    /\ ppu = Ppu_new("Vertical")
    /\ bus_cycle = 0
    /\ bus = Bus_new(NesRom(PRG_ROM_CHUNK_SIZE))
    /\ cpu \in {[Registers_new EXCEPT !.a = a, !.p = p] : a \in 0 .. 255, p \in AluFlags}
    /\ mem \in {Program(16, <<m>>) : m \in 0 .. 255}
    /\ cycles = 0
    /\ ops = 0
    /\ ret = Ret("new", 0, 0, FALSE)
    /\ aborted = FALSE

\* CPU::adc(m), m the byte at $0010
Adc ==
    /\ ops < MaxAdds
    /\ ops' = ops + 1
    /\ cpu' = adc(cpu, mem[16])
    /\ ret' = Ret("adc", mem[16], 0, FALSE)
    /\ UNCHANGED <<bus, ppu, bus_cycle, mem, cycles, aborted>>

\* Emulator::adc(data), data the byte at $0010
EmulatorAdc ==
    /\ ops < MaxAdds
    /\ ops' = ops + 1
    /\ cpu' = Emulator_adc(cpu, mem[16])
    /\ ret' = Ret("Emulator_adc", mem[16], 0, FALSE)
    /\ UNCHANGED <<bus, ppu, bus_cycle, mem, cycles, aborted>>

NextAlu == Adc \/ EmulatorAdc

SpecAlu == InitAlu /\ [][NextAlu]_vars

----------------------------------------------------------------------------
(* The subtractor, applied to every accumulator and operand *)

\* CPU::sbc(m), m the byte at $0010
Sbc ==
    /\ ops < MaxAdds
    /\ ops' = ops + 1
    /\ cpu' = sbc(cpu, mem[16])
    /\ ret' = Ret("sbc", mem[16], 0, FALSE)
    /\ UNCHANGED <<bus, ppu, bus_cycle, mem, cycles, aborted>>

\* Emulator::sbc(data), data the byte at $0010
EmulatorSbc ==
    /\ ops < MaxAdds
    /\ ops' = ops + 1
    /\ cpu' = Emulator_sbc(cpu, mem[16])
    /\ ret' = Ret("Emulator_sbc", mem[16], 0, FALSE)
    /\ UNCHANGED <<bus, ppu, bus_cycle, mem, cycles, aborted>>

NextSbc == Sbc \/ EmulatorSbc

SpecSbc == InitAlu /\ [][NextSbc]_vars

----------------------------------------------------------------------------
(* The compares, applied to every register value and operand *)

\* status bytes of the compares' inputs: V, D and I set with N, Z and C
\* clear, and the reverse
CmpFlags == {76, 131}

\* The registers before a compare with the byte at $0010: A takes every
\* value, and X and Y every value too, the three always different.
InitCmp ==
    /\ ppu = Ppu_new("Vertical")
    /\ bus_cycle = 0
    /\ bus = Bus_new(NesRom(PRG_ROM_CHUNK_SIZE))
    /\ cpu \in {[Registers_new EXCEPT !.a = v, !.x = (v + 85) % 256,
                                      !.y = (v + 170) % 256, !.p = p] :
                    v \in 0 .. 255, p \in CmpFlags}
    /\ mem \in {Program(16, <<m>>) : m \in 0 .. 255}
    /\ cycles = 0
    /\ ops = 0
    /\ ret = Ret("new", 0, 0, FALSE)
    /\ aborted = FALSE

\* CPU::cmp(data), data the byte at $0010
Cmp ==
    /\ ops < MaxCompares
    /\ ops' = ops + 1
    /\ cpu' = cmp(cpu, mem[16])
    /\ ret' = Ret("cmp", mem[16], 0, FALSE)
    /\ UNCHANGED <<bus, ppu, bus_cycle, mem, cycles, aborted>>

\* CPU::cpx(data), data the byte at $0010
Cpx ==
    /\ ops < MaxCompares
    /\ ops' = ops + 1
    /\ cpu' = cpx(cpu, mem[16])
    /\ ret' = Ret("cpx", mem[16], 0, FALSE)
    /\ UNCHANGED <<bus, ppu, bus_cycle, mem, cycles, aborted>>

\* CPU::cpy(data), data the byte at $0010
Cpy ==
    /\ ops < MaxCompares
    /\ ops' = ops + 1
    /\ cpu' = cpy(cpu, mem[16])
    /\ ret' = Ret("cpy", mem[16], 0, FALSE)
    /\ UNCHANGED <<bus, ppu, bus_cycle, mem, cycles, aborted>>

NextCmp == Cmp \/ Cpx \/ Cpy

SpecCmp == InitCmp /\ [][NextCmp]_vars

----------------------------------------------------------------------------
(* The decoder of CPU::run on every opcode byte *)

\* addresses of the byte fetched: ordinary code and the last byte of memory
DecodePcs == {1024, 65535}

\* CPU::run about to fetch the byte at pc, which is any of the 256
InitDecode ==
    /\ ppu = Ppu_new("Vertical")
    /\ bus_cycle = 0
    /\ bus = Bus_new(NesRom(PRG_ROM_CHUNK_SIZE))
    /\ \E pc \in DecodePcs : \E b \in 0 .. 255 :
          /\ cpu = [Registers_new EXCEPT !.pc = pc]
          /\ mem = Program(pc, <<b>>)
    /\ cycles = 0
    /\ ops = 0
    /\ ret = Ret("new", 0, 0, FALSE)
    /\ aborted = FALSE

\* CPU::run fetches an opcode and enters the method of its match arm
Decode(instruction) ==
    /\ ~aborted
    /\ cpu.pc \in DOMAIN mem
    /\ Handler(instruction) # "unreachable"
    /\ \E o \in next(Machine) :
          /\ o.val = instruction
          /\ cpu' = o.st.r
          /\ mem' = o.st.mem
          /\ cycles' = o.st.cycles
    /\ ret' = Ret(Handler(instruction), cpu.pc, instruction, FALSE)
    /\ UNCHANGED <<bus, ppu, bus_cycle, ops, aborted>>

\* Unreachable that goes on to the next byte
Unreachable_skips ==
    /\ ~aborted
    /\ cpu.pc \in DOMAIN mem
    /\ \E o \in next(Machine) :
          /\ Handler(o.val) = "unreachable"
          /\ cpu' = o.st.r
          /\ mem' = o.st.mem
          /\ cycles' = o.st.cycles
          /\ ret' = Ret("nop", cpu.pc, o.val, FALSE)
    /\ UNCHANGED <<bus, ppu, bus_cycle, ops, aborted>>

\* CPU::run fetches a byte that only the last arm takes: unreachable!() panics
Unreachable ==
    /\ ~aborted
    /\ cpu.pc \in DOMAIN mem
    /\ \E o \in next(Machine) :
          /\ Handler(o.val) = "unreachable"
          /\ cpu' = o.st.r
          /\ mem' = o.st.mem
          /\ cycles' = o.st.cycles
          /\ ret' = Ret("unreachable", cpu.pc, o.val, FALSE)
    /\ aborted' = TRUE
    /\ UNCHANGED <<bus, ppu, bus_cycle, ops>>

NextDecode ==
    \/ \E instruction \in 0 .. 255 : Decode(instruction)
    \/ Unreachable

SpecDecode == InitDecode /\ [][NextDecode]_vars

----------------------------------------------------------------------------
(* The bus driven by reads and writes; the controller port at $4016 *)

\* Bus::read(a). The flag of the call says whether button A was held when it
\* was made.
DoBusRead(a) ==
    /\ ~aborted
    /\ bus.struct = "Bus"
    /\ IF Bus_read_panics(bus, ppu, a)
       THEN /\ aborted' = TRUE
            /\ ret' = Ret("Bus_read", a, 0, bus.controller.button_states[CONTROLLER_BUTTON_A])
            /\ UNCHANGED <<bus, ppu>>
       ELSE /\ bus' = Bus_read(bus, ppu, a).bus
            /\ ppu' = Bus_read(bus, ppu, a).ppu
            /\ ret' = Ret("Bus_read", a, Bus_read(bus, ppu, a).value,
                          bus.controller.button_states[CONTROLLER_BUTTON_A])
            /\ UNCHANGED aborted
    /\ UNCHANGED <<bus_cycle, cpu, mem, cycles>>

\* Bus::write(a, v)
DoBusWrite(a, v) ==
    /\ ~aborted
    /\ bus.struct = "Bus"
    /\ IF Bus_write_panics(bus, ppu, a, v)
       THEN /\ aborted' = TRUE
            /\ UNCHANGED <<bus, ppu>>
       ELSE /\ bus' = Bus_write(bus, ppu, a, v).bus
            /\ ppu' = Bus_write(bus, ppu, a, v).ppu
            /\ UNCHANGED aborted
    /\ ret' = Ret("Bus_write", a, v, bus.controller.button_states[CONTROLLER_BUTTON_A])
    /\ UNCHANGED <<bus_cycle, cpu, mem, cycles>>

\* bytes written to $4016: bit 0 clear, set, and clear under other bits
StrobeBytes == {0, 1, 254}

InitController ==
    /\ ppu = Ppu_new("Vertical")
    /\ bus_cycle = 0
    /\ bus = Bus_new(NesRom(PRG_ROM_CHUNK_SIZE))
    /\ cpu = Registers_new
    /\ mem = Ram_new
    /\ cycles = 0
    /\ ops = 0
    /\ ret = Ret("new", 0, 0, FALSE)
    /\ aborted = FALSE

\* one more access of the controller port in a bounded run
Poll == ops < MaxPolls /\ ops' = ops + 1

\* the program writes v to $4016
WriteController(v) == Poll /\ DoBusWrite(16406, v)

\* the program reads $4016
ReadController == Poll /\ DoBusRead(16406)

\* the host presses or releases a button: bus.controller.button_states[i] = pressed
SetButton(i, pressed) ==
    /\ bus.struct = "Bus"
    /\ bus.controller.button_states[i] # pressed
    /\ bus' = [bus EXCEPT !.controller.button_states[i] = pressed]
    /\ UNCHANGED <<ppu, bus_cycle, cpu, mem, cycles, ops, ret, aborted>>

NextController ==
    \/ \E v \in StrobeBytes : WriteController(v)
    \/ ReadController
    \/ \E i \in CONTROLLER_BUTTON_A .. CONTROLLER_BUTTON_RIGHT :
       \E pressed \in BOOLEAN : SetButton(i, pressed)

SpecController == InitController /\ [][NextController]_vars

\* the host changes a button only while the program holds strobe high, as a
\* host that samples its keys between two polls does
HoldButton(i, pressed) == bus.controller.strobe /\ SetButton(i, pressed)

NextPolling ==
    \/ \E v \in StrobeBytes : WriteController(v)
    \/ ReadController
    \/ \E i \in CONTROLLER_BUTTON_A .. CONTROLLER_BUTTON_RIGHT :
       \E pressed \in BOOLEAN : HoldButton(i, pressed)

SpecPolling == InitController /\ [][NextPolling]_vars

----------------------------------------------------------------------------
(* The memory map driven by reads and writes over the whole address space *)

\* addresses: both ends of the internal RAM and of its mirrors, the PPU
\* registers and a mirror of OAMDATA, the APU and controller ports, the
\* unmapped range, the PRG RAM, both PRG-ROM banks and the vectors
IoAddrs ==
    {0, 2047, 2048, 8191,
     8192, 8194, 8195, 8196, 8198, 8199, 8204, 16380,
     16384, 16404, 16405, 16406, 16407,
     16408, 20480, 24575,
     24576, 32767,
     32768, 49151, 49152, 65532, 65533, 65535}

\* bytes written: bit 0 set, and clear
IoBytes == {1, 164}

\* sizes of the PRG-ROM of a cartridge: one chunk and two
PrgSizes == {PRG_ROM_CHUNK_SIZE, 2 * PRG_ROM_CHUNK_SIZE}

\* Bus::new, CpuMemory::new or MemoryMap::new on a cartridge
InitMap ==
    /\ ppu = Ppu_new("Vertical")
    /\ bus_cycle = 0
    /\ \E len \in PrgSizes :
          bus \in {Bus_new(NesRom(len)), CpuMemory_new(NesRom(len)),
                   MemoryMap_new(NesRom(len))}
    /\ cpu = Registers_new
    /\ mem = Ram_new
    /\ cycles = 0
    /\ ops = 0
    /\ ret = Ret("new", 0, 0, FALSE)
    /\ aborted = FALSE

\* one more access of the memory map in a bounded run
Io == ops < MaxIo /\ ops' = ops + 1

BusRead(a) == Io /\ DoBusRead(a)

BusWrite(a, v) == Io /\ DoBusWrite(a, v)

\* Bus::reset_vector()
BusResetVector ==
    /\ ~aborted
    /\ Io
    /\ bus.struct = "Bus"
    /\ ret' = Ret("Bus_reset_vector", 0, Bus_reset_vector(bus), FALSE)
    /\ UNCHANGED <<ppu, bus_cycle, bus, cpu, mem, cycles, aborted>>

\* CpuMemory::read(a)
CpuMemoryRead(a) ==
    /\ ~aborted
    /\ Io
    /\ bus.struct = "CpuMemory"
    /\ IF CpuMemory_read_panics(bus, ppu, a)
       THEN /\ aborted' = TRUE
            /\ ret' = Ret("CpuMemory_read", a, 0, FALSE)
            /\ UNCHANGED <<bus, ppu>>
       ELSE /\ bus' = CpuMemory_read(bus, ppu, a).bus
            /\ ppu' = CpuMemory_read(bus, ppu, a).ppu
            /\ ret' = Ret("CpuMemory_read", a, CpuMemory_read(bus, ppu, a).value, FALSE)
            /\ UNCHANGED aborted
    /\ UNCHANGED <<bus_cycle, cpu, mem, cycles>>

\* MemoryMap::read(a)
MemoryMapRead(a) ==
    /\ ~aborted
    /\ Io
    /\ bus.struct = "MemoryMap"
    /\ ret' = Ret("MemoryMap_read", a, MemoryMap_read(bus, a), FALSE)
    /\ UNCHANGED <<ppu, bus_cycle, bus, cpu, mem, cycles, aborted>>

\* MemoryMap::write(a, v)
MemoryMapWrite(a, v) ==
    /\ ~aborted
    /\ Io
    /\ bus.struct = "MemoryMap"
    /\ bus' = MemoryMap_write(bus, a, v)
    /\ ret' = Ret("MemoryMap_write", a, v, FALSE)
    /\ UNCHANGED <<ppu, bus_cycle, cpu, mem, cycles, aborted>>

\* MemoryMap::reset_vector()
MemoryMapResetVector ==
    /\ ~aborted
    /\ Io
    /\ bus.struct = "MemoryMap"
    /\ ret' = Ret("MemoryMap_reset_vector", 0, MemoryMap_reset_vector(bus), FALSE)
    /\ UNCHANGED <<ppu, bus_cycle, bus, cpu, mem, cycles, aborted>>

NextMap ==
    \/ \E a \in IoAddrs : BusRead(a)
    \/ \E a \in IoAddrs : \E v \in IoBytes : BusWrite(a, v)
    \/ BusResetVector
    \/ \E a \in IoAddrs : CpuMemoryRead(a)
    \/ \E a \in IoAddrs : MemoryMapRead(a)
    \/ \E a \in IoAddrs : \E v \in IoBytes : MemoryMapWrite(a, v)
    \/ MemoryMapResetVector

SpecMap == InitMap /\ [][NextMap]_vars

----------------------------------------------------------------------------
(* The bus clock driven with any cycle count, smaller ones included *)

\* cycle counts handed to Bus::tick: a few instructions, a scanline's worth
\* (114 cycles are 342 dots) and a frame's worth
TickCycles == {0, 2, 7, 113, 114, 29781}

\* Bus::tick(c). Where the u32 arithmetic overflows the call panics or goes
\* on with the wrapped value, as the build has it.
BusTickTo(c) ==
    /\ ~aborted
    /\ ops < MaxBusTicks
    /\ ops' = ops + 1
    /\ ret' = Ret("Bus_tick", c, Bus_tick_dots(bus_cycle, c), FALSE)
    /\ \/ /\ bus_cycle' = Bus_tick(bus_cycle, ppu, c).cycle
          /\ ppu' = Bus_tick(bus_cycle, ppu, c).ppu
          /\ UNCHANGED aborted
       \/ /\ Bus_tick_panics(bus_cycle, c)
          /\ aborted' = TRUE
          /\ UNCHANGED <<bus_cycle, ppu>>
    /\ UNCHANGED <<bus, cpu, mem, cycles>>

NextTick == \E c \in TickCycles : BusTickTo(c)

SpecTick == Init /\ [][NextTick]_vars

----------------------------------------------------------------------------
(* The PPU memory accessed directly: PpuMemory::read and PpuMemory::write,
   from PpuMemory::new under either mirroring *)

\* the four nametable pages' first and last bytes, the ends of the
\* $3000-$3EFF range and palette addresses with their mirrors
VramWriteAddrs ==
    {8192, 9215, 9216, 10239, 10240, 11263, 11264, 12287}
        \cup {12288, 13312, 16127}
        \cup {16128, 16132, 16144, 16148, 16156, 16160, 16176, 16383}

\* the addresses that are written, and a byte in the middle of each page
VramReadAddrs == VramWriteAddrs \cup {8704, 9728, 10752, 11776}

VramBytes == {165}

PpuMemoryRead(a) ==
    /\ ~aborted
    /\ ops < MaxVramOps
    /\ ops' = ops + 1
    /\ IF PpuMemory_read_panics(a)
       THEN /\ aborted' = TRUE
            /\ ret' = Ret("PpuMemory_read", a, 0, FALSE)
       ELSE /\ ret' = Ret("PpuMemory_read", a, PpuMemory_read(ppu.memory, a), FALSE)
            /\ UNCHANGED aborted
    /\ UNCHANGED <<ppu, bus_cycle, bus, cpu, mem, cycles>>

PpuMemoryWrite(a, v) ==
    /\ ~aborted
    /\ ops < MaxVramOps
    /\ ops' = ops + 1
    /\ ret' = Ret("PpuMemory_write", a, v, FALSE)
    /\ IF PpuMemory_write_panics(a)
       THEN /\ aborted' = TRUE
            /\ UNCHANGED ppu
       ELSE /\ ppu' = [ppu EXCEPT !.memory = PpuMemory_write(@, a, v)]
            /\ UNCHANGED aborted
    /\ UNCHANGED <<bus_cycle, bus, cpu, mem, cycles>>

NextVram ==
    \/ \E a \in VramReadAddrs : PpuMemoryRead(a)
    \/ \E a \in VramWriteAddrs, v \in VramBytes : PpuMemoryWrite(a, v)

SpecVram == Init /\ [][NextVram]_vars

----------------------------------------------------------------------------
(* The PPU status flags over a frame: Ppu::tick a scanline at a time, with
   the flags set and cleared through Ppu::set_status_bit *)

StatusBits ==
    {PPU_STATUS_SPRITE_OVERFLOW_BIT, PPU_STATUS_SPRITE_HIT_BIT,
     PPU_STATUS_VBLANK_BIT}

SetStatusBit(bit, value) ==
    /\ ~aborted
    /\ ppu' = set_status_bit(ppu, bit, value)
    /\ ret' = Ret("set_status_bit", bit, 0, value)
    /\ UNCHANGED <<bus, bus_cycle, cpu, mem, cycles, ops, aborted>>

NextStatus ==
    \/ Tick(SCANLINE_CYCLES + 1)
    \/ \E bit \in StatusBits, value \in BOOLEAN : SetStatusBit(bit, value)

SpecStatus == Init /\ [][NextStatus]_vars

----------------------------------------------------------------------------
(* One instruction with a zero-page indexed or indirect operand *)

\* LDA (zp,X), LDA (zp),Y, LDA zp,X and LDX zp,Y
ZeroPageInstructions == {161, 177, 181, 182}

\* CPU::run about to fetch the instruction at $0400, with nothing of the
\* image known but the instruction itself
InitZeroPage ==
    /\ ppu = Ppu_new("Vertical")
    /\ bus_cycle = 0
    /\ bus = Bus_new(NesRom(PRG_ROM_CHUNK_SIZE))
    /\ \E instruction \in ZeroPageInstructions :
       \E b1 \in OperandBytes :
       \E x \in IndexValues :
       \E y \in IndexValues :
          /\ cpu = [a |-> 129, x |-> x, y |-> y, s |-> 253, pc |-> 1024, p |-> 0]
          /\ mem = Program(1024, <<instruction, b1>>)
    /\ cycles = 0
    /\ ops = 0
    /\ ret = Ret("new", 0, 0, FALSE)
    /\ aborted = FALSE

NextZeroPage == \E instruction \in ZeroPageInstructions : Step(instruction)

SpecZeroPage == InitZeroPage /\ [][NextZeroPage]_vars

----------------------------------------------------------------------------
(* JMP absolute, run by CPU::run and by Emulator::run *)

\* where the JMP lies: in RAM, and with its opcode in the last byte of memory
JmpPcs == {1024, 65535}

\* the bytes of the target: of $0400 and $FFFF, the two addresses of the JMP
\* itself, and of other addresses
JmpBytes == {0, 4, 16, 128, 255}

InitJmp ==
    /\ ppu = Ppu_new("Vertical")
    /\ bus_cycle = 0
    /\ bus = Bus_new(NesRom(PRG_ROM_CHUNK_SIZE))
    /\ \E pc \in JmpPcs :
       \E b1 \in JmpBytes :
       \E b2 \in JmpBytes :
       \E a \in {0, 129} :
          /\ cpu = [a |-> a, x |-> 0, y |-> 0, s |-> 253, pc |-> pc, p |-> 0]
          /\ mem = Program(pc, <<76, b1, b2>>)
    /\ cycles = 0
    /\ ops = 0
    /\ ret = Ret("new", 0, 0, FALSE)
    /\ aborted = FALSE

\* One iteration of the loop of Emulator::run (src/src/main.rs) on a JMP
\* absolute
EmulatorJmpAbsolute ==
    /\ ~aborted
    /\ ops < MaxInstrs
    /\ cpu.pc \in DOMAIN mem
    /\ \E o \in next(Machine) :
          /\ o.val = 76
          /\ \E t \in Emulator_jmp_absolute(o.st) :
                /\ cpu' = t.r
                /\ mem' = t.mem
                /\ cycles' = t.cycles
    /\ ops' = ops + 1
    /\ ret' = Ret("Emulator_run", cpu.pc, 76, FALSE)
    /\ UNCHANGED <<bus, ppu, bus_cycle, aborted>>

NextJmp == Step(76) \/ EmulatorJmpAbsolute

SpecJmp == InitJmp /\ [][NextJmp]_vars

----------------------------------------------------------------------------
(* Properties *)

\* C1: the state in which the CPU starts executing has A=X=Y=0, S=$FD, the
\* I flag set and PC equal to the little-endian word at $FFFC/$FFFD.
C1_ResetState ==
    ret.call = "new" =>
        /\ cpu.a = 0 /\ cpu.x = 0 /\ cpu.y = 0
        /\ cpu.s = 253
        /\ get_status_bit_p(cpu, STATUS_INTERRUPT_BIT)
        /\ cpu.pc = Word(mem[INTERRUPT_VECTOR_RES_HI], mem[INTERRUPT_VECTOR_RES_LO])

\* what C2 compares of a PPU: (scanline, dot, VBlank bit, nmi, new_frame)
TimingView(p) == <<p.scanline, p.cycle, is_vblank(p), p.nmi, p.new_frame>>

\* C2: from every PPU state, tick(a) followed by tick(b) leaves the same
\* scanline, dot, VBlank bit, nmi and new_frame as a single tick(a + b).
C2_TickAdditive ==
    \A a \in TickAmounts, b \in TickAmounts :
        TimingView(Ppu_tick(Ppu_tick(ppu, a), b)) = TimingView(Ppu_tick(ppu, a + b))

\* the dots the bus has handed to the PPU when it forwards three per CPU cycle
DotsForwarded == 3 * bus_cycle

\* C3: when Bus::tick keeps being called with 1 to 8 more CPU cycles each
\* time, the PPU gets into VBlank and completes a frame every 341 * 262 dots:
\* once the dots of 241 scanlines have been forwarded (and before those of
\* 260) the VBlank bit is set, and once the dots of a whole frame have been
\* forwarded the new-frame flag has been raised.
C3_FrameCompletes ==
    /\ DotsForwarded \in ((VISIBLE_SCANLIENS + 1) * SCANLINE_CYCLES)
                             .. ((SCANLINES - 2) * SCANLINE_CYCLES)
          => is_vblank(ppu)
    /\ DotsForwarded >= SCANLINES * SCANLINE_CYCLES => ppu.new_frame

\* C4: in every reachable PPU state the dot counter is in 0..340 and the
\* scanline counter is in 0..261.
C4_CountersInRange ==
    /\ ppu.cycle \in 0 .. (SCANLINE_CYCLES - 1)
    /\ ppu.scanline \in 0 .. (SCANLINES - 1)

\* the PPU reaches scanline n in this step
Reaches(n) == ppu.scanline # n /\ ppu'.scanline = n

\* C5: the VBlank bit becomes set exactly when the PPU reaches scanline 241,
\* is cleared by the PPU exactly when it reaches scanline 261, and between
\* those points only a PPUSTATUS read clears it.
C5_VBlankWindow ==
    [][ /\ Reaches(VISIBLE_SCANLIENS + 1) => is_vblank(ppu')
        /\ (~is_vblank(ppu) /\ is_vblank(ppu')) => Reaches(VISIBLE_SCANLIENS + 1)
        /\ Reaches(SCANLINES - 1) => ~is_vblank(ppu')
        /\ (is_vblank(ppu) /\ ~is_vblank(ppu'))
              => (ret'.call = "read_ppu_status" \/ Reaches(SCANLINES - 1))
      ]_vars

\* the parts of C6 that do not depend on how long a raised NMI stays pending:
\* entering VBlank raises the NMI iff PPUCTRL bit 7 is set; poll_nmi returns
\* the pending NMI and consumes it; nothing but a VBlank entry or a PPUCTRL
\* write raises one; the new-frame flag is raised by the frame wrap only,
\* stays until polled, and poll_new_frame returns and consumes it.
OneShotEvents ==
    /\ Reaches(VISIBLE_SCANLIENS + 1)
          => ppu'.nmi = (ppu.nmi \/ get_ctrl_bit(ppu, PPU_CTRL_VBLANK_NMI_BIT))
    /\ ret'.call = "poll_nmi" => (ret'.flag = ppu.nmi /\ ~ppu'.nmi)
    /\ (~ppu.nmi /\ ppu'.nmi)
          => (Reaches(VISIBLE_SCANLIENS + 1) \/ ret'.call = "write_ppu_ctrl")
    /\ Reaches(0) => ppu'.new_frame
    /\ (~ppu.new_frame /\ ppu'.new_frame) => Reaches(0)
    /\ ret'.call = "poll_new_frame" => (ret'.flag = ppu.new_frame /\ ~ppu'.new_frame)
    /\ (ppu.new_frame /\ ~ppu'.new_frame) => ret'.call = "poll_new_frame"

C7_CtrlWriteNmi ==
    [][ ret'.call = "write_ppu_ctrl" =>
            ppu'.nmi = (ppu.nmi \/ (/\ ~Bit(ppu.ctrl, 7)
                                    /\ Bit(ret'.arg, 7)
                                    /\ Bit(ppu.status, 7)))
      ]_vars

\* a PPUCTRL write that set bit 7 during VBlank has just been made, after the
\* VBlank entry itself (scanline 242 or later), and an NMI is pending
C7_Witness ==
    /\ ret.call = "write_ppu_ctrl"
    /\ ret.arg = 128
    /\ ppu.nmi
    /\ is_vblank(ppu)
    /\ ppu.scanline > VISIBLE_SCANLIENS + 1

\* C8: read_ppu_status returns the status byte as it was before the read,
\* clears bit 7 and nothing else of the PPU except the two write toggles,
\* which it resets to the first write; a read right after it sees bit 7 = 0.
C8_StatusRead ==
    [][ ret'.call = "read_ppu_status" =>
            /\ ret'.value = ppu.status
            /\ ppu' = [ppu EXCEPT !.status = ppu.status % 128,
                                  !.addr.is_hi = TRUE,
                                  !.scroll.is_x = TRUE]
            /\ (ret.call = "read_ppu_status" => ret'.value < 128)
      ]_vars

\* read_ppu_status has just returned a status byte with VBlank set, and the
\* bit is now clear and both toggles are at the first write
C8_Witness ==
    /\ ret.call = "read_ppu_status"
    /\ ret.value = 128
    /\ ppu.status = 0
    /\ ppu.addr.is_hi
    /\ ppu.scroll.is_x
    /\ ops > 1

\* C9: PPUSCROLL and PPUADDR share one write toggle: from every PPU state,
\* after a PPUSTATUS read, one PPUSCROLL write followed by one PPUADDR write
\* stores the PPUADDR byte in the low address byte, and one PPUADDR write
\* followed by one PPUSCROLL write stores the scroll byte in y.
C9_SharedToggle ==
    \A sv \in DataBytes, av \in AddrBytes :
        LET p0 == read_ppu_status(ppu).self
            p2 == write_ppu_addr(write_ppu_scroll(p0, sv), av)
            q2 == write_ppu_scroll(write_ppu_addr(p0, av), sv)
        IN  /\ p2.addr.lo = av /\ p2.addr.hi = p0.addr.hi
            /\ q2.scroll.y = sv /\ q2.scroll.x = p0.scroll.x

\* C10: a read_ppu_data at an address outside $3F00-$3FFF returns the
\* internal buffer, refills the buffer with the byte at that address and
\* moves the address on by the increment, so that the next such read returns
\* the byte at the first address.
C10_BufferedRead ==
    [][ (ret'.call = "read_ppu_data" /\ get_addr(ppu.addr) \notin 16128..16383) =>
            /\ ~aborted'
            /\ ret'.value = ppu.data_buffer
            /\ ppu'.data_buffer = PpuMemory_read(ppu.memory, get_addr(ppu.addr))
            /\ get_addr(ppu'.addr) =
                   (get_addr(ppu.addr) + addr_increment_amount(ppu)) % 16384
      ]_vars

\* the amount C11 names: 1 when PPUCTRL bit 2 is 0, 32 when it is 1
C11_Amount(p) == IF Bit(p.ctrl, 2) THEN 32 ELSE 1

At(m, k, b) == k \in DOMAIN m /\ m[k] = b

\* the run loop has just executed the instruction `instruction` to its end
Ran(instruction) == ret'.call = "run" /\ ret'.value = instruction /\ ~aborted'

\* the byte at offset i of the instruction just executed, as it was fetched
Operand(i) ==
    LET k == (ret'.arg + i) % 65536
    IN  IF k \in DOMAIN mem THEN mem[k] ELSE mem'[k]

\* C12: JMP (indirect) through the pointer $xxFF takes the target low byte
\* from $xxFF and the target high byte from $xx00 of the same page; through
\* any other pointer the high byte comes from pointer + 1.
C12_JmpIndirectSamePage ==
    [][ Ran(108) =>
            LET pointer == Word(Operand(2), Operand(1))
                hi_addr == Word(pointer \div 256, (pointer + 1) % 256)
            IN  hi_addr \in DOMAIN mem'
                    => cpu'.pc = Word(mem'[hi_addr], mem'[pointer])
      ]_vars

\* the cycle count the 6502 documentation gives for an opcode, without the
\* cycles that depend on the operand (page crossed, branch taken)
DocumentedCycles(instruction) ==
    CASE instruction \in {10, 42, 74, 105, 106, 169, 170, 208, 232, 234, 240} -> 2
      [] instruction \in {8, 72, 76, 133} -> 3
      [] instruction \in {40, 104, 185, 189} -> 4
      [] instruction \in {108, 153, 157, 177} -> 5
      [] instruction \in {32, 64, 96, 145} -> 6
      [] instruction \in {0, 30} -> 7

\* the most cycles the operand can add to DocumentedCycles
OperandCycles(instruction) ==
    IF instruction \in {208, 240} THEN 2
    ELSE IF instruction \in {177, 185, 189} THEN 1
    ELSE 0

\* C13: the clock cycles taken by fetching and executing one instruction are
\* the documented count of its opcode (plus, for a branch or an indexed read,
\* no more than the documented operand-dependent cycles).
C13_DocumentedCycles ==
    [][ \A instruction \in Instructions :
            Ran(instruction) =>
                (cycles' - cycles) \in
                    DocumentedCycles(instruction)
                        .. (DocumentedCycles(instruction) + OperandCycles(instruction))
      ]_vars

\* base + index has a different high byte than base
PageCrossed(base, index) == (base \div 256) # (((base + index) % 65536) \div 256)

\* the byte now at the zero-page address zp
ZeroPage(zp) == mem'[zp % 256]

\* C14: with absolute,X, absolute,Y and (indirect),Y addressing a read takes
\* one cycle more than its memory accesses iff base + index is in another page
\* than base; a store or read-modify-write takes that cycle for every base and
\* index.
C14_PageCrossCycle ==
    [][ /\ Ran(189) => cycles' - cycles =
               4 + (IF PageCrossed(Word(Operand(2), Operand(1)), cpu.x) THEN 1 ELSE 0)
        /\ Ran(185) => cycles' - cycles =
               4 + (IF PageCrossed(Word(Operand(2), Operand(1)), cpu.y) THEN 1 ELSE 0)
        /\ Ran(177) => cycles' - cycles =
               5 + (IF PageCrossed(Word(ZeroPage(Operand(1) + 1), ZeroPage(Operand(1))),
                                   cpu.y) THEN 1 ELSE 0)
        /\ Ran(157) => cycles' - cycles = 5
        /\ Ran(153) => cycles' - cycles = 5
        /\ Ran(145) => cycles' - cycles = 6
        /\ Ran(30)  => cycles' - cycles = 7
      ]_vars

\* LDA absolute,X has just been executed with base $05FF and X = 1, a page
\* crossed, in 5 cycles
C14_Witness ==
    /\ ret.call = "run" /\ ret.value = 189 /\ ops = 1
    /\ At(mem, 1025, 255) /\ At(mem, 1026, 5) /\ cpu.x = 1
    /\ 1536 \in DOMAIN mem
    /\ cycles = 5

\* C15: PC stays a 16-bit value and no instruction faults on PC arithmetic:
\* a taken branch, whatever its address and offset, completes with PC = (the
\* address after its operand + the signed offset) mod 2^16, and a JMP absolute
\* (to another address than its own) completes wherever its opcode was
\* fetched, $FFFF included.
C15_PcWraps ==
    [][ /\ cpu'.pc \in 0 .. 65535
        /\ \A branch \in {208, 240} :
               (ret'.call = "run" /\ ret'.value = branch) =>
                   LET zero == Bit(cpu.p, STATUS_ZERO_BIT)
                       taken == IF branch = 208 THEN ~zero ELSE zero
                   IN  /\ ~aborted'
                       /\ taken => cpu'.pc =
                              (ret'.arg + 2 + AsI8(Operand(1)) + 65536) % 65536
        /\ (/\ ret'.call = "run" /\ ret'.value = 76
            /\ Word(Operand(2), Operand(1)) # ret'.arg)
               => (~aborted' /\ cpu'.pc = Word(Operand(2), Operand(1)))
      ]_vars

\* C16: JSR at address a with target t pushes the high byte and then the low
\* byte of a + 2 and sets PC = t, for every stack pointer (the pushes wrap
\* inside page 1); an RTS executed next sets PC = a + 3 mod 2^16 and leaves S
\* as it was before the JSR.
C16_JsrRts ==
    [][ /\ Ran(32) =>
               LET return == (ret'.arg + 2) % 65536
               IN  /\ cpu'.pc = Word(Operand(2), Operand(1))
                   /\ At(mem', 256 + cpu.s, return \div 256)
                   /\ At(mem', 256 + ((cpu.s + 255) % 256), return % 256)
                   /\ cpu'.s = (cpu.s + 254) % 256
        /\ (Ran(96) /\ ret.call = "run" /\ ret.value = 32) =>
               /\ cpu'.pc = (ret.arg + 3) % 65536
               /\ cpu'.s = (cpu.s + 2) % 256
      ]_vars

\* JSR at $FFFF with S = 0, then RTS at the target: the return address $0001
\* went to $0100 and $01FF, PC is $0002 and S is 0 again
C16_Witness ==
    /\ ret.call = "run" /\ ret.value = 96 /\ ops = 2
    /\ At(mem, 65535, 32)
    /\ At(mem, 256, 0) /\ At(mem, 511, 1)
    /\ cpu.pc = 2
    /\ cpu.s = 0

\* C17: push_stack(v) writes v at $0100 + S and then decrements S modulo 256;
\* a pull_stack right after it returns v and restores S; neither touches an
\* address outside $0100-$01FF.  Checked of the two helpers from every
\* reachable state, and of PHA followed by PLA for every S.
C17_PushPull ==
    [][ /\ \A v \in OperandBytes :
               LET pushed == push_stack(Machine, v)
               IN  /\ At(pushed.mem, 256 + cpu.s, v)
                   /\ pushed.r.s = (cpu.s + 255) % 256
                   /\ \A k \in DOMAIN pushed.mem \ {256 + cpu.s} :
                          k \in DOMAIN mem /\ pushed.mem[k] = mem[k]
                   /\ \A pulled \in pull_stack(pushed) :
                          /\ pulled.val = v
                          /\ pulled.st.r.s = cpu.s
                          /\ pulled.st.mem = pushed.mem
        /\ \A pulled \in pull_stack(Machine) :
               (DOMAIN pulled.st.mem \ DOMAIN mem) \subseteq 256 .. 511
        /\ Ran(72) =>
               /\ At(mem', 256 + cpu.s, cpu.a)
               /\ cpu'.s = (cpu.s + 255) % 256
               /\ \A k \in DOMAIN mem' \ {256 + cpu.s} :
                      k \in DOMAIN mem /\ mem'[k] = mem[k]
        /\ (Ran(104) /\ ret.call = "run" /\ ret.value = 72) =>
               /\ cpu'.a = cpu.a
               /\ cpu'.s = (cpu.s + 1) % 256
               /\ mem' = mem
      ]_vars

\* PHA with S = 0 and then PLA: the byte went to $0100, S wrapped to $FF and
\* is 0 again, and A holds the byte pulled
C17_Witness ==
    /\ ret.call = "run" /\ ret.value = 104 /\ ops = 2
    /\ At(mem, 1024, 72)
    /\ At(mem, 256, 129)
    /\ cpu.a = 129
    /\ cpu.s = 0

\* C18: BRK at address a pushes the high byte of a + 2, its low byte, and P
\* with bits 4 and 5 set, in this order; then sets I and loads PC from
\* $FFFE/$FFFF; S ends 3 lower (mod 256).  An RTI executed next restores PC
\* to a + 2 with no adjustment, restores S, and restores P (the byte pushed)
\* with bits 4 and 5 cleared.
C18_BrkRti ==
    [][ /\ Ran(0) =>
               LET return == (ret'.arg + 2) % 65536
               IN  /\ At(mem', 256 + cpu.s, return \div 256)
                   /\ At(mem', 256 + ((cpu.s + 255) % 256), return % 256)
                   /\ At(mem', 256 + ((cpu.s + 254) % 256), cpu.p + 48)
                   /\ cpu.p \div 16 \in {0, 4, 8, 12}
                   /\ cpu'.p = WithBit(cpu.p, STATUS_INTERRUPT_BIT, TRUE)
                   /\ cpu'.pc = Word(mem'[INTERRUPT_VECTOR_IRQ_HI],
                                     mem'[INTERRUPT_VECTOR_IRQ_LO])
                   /\ cpu'.s = (cpu.s + 253) % 256
        /\ (Ran(64) /\ ret.call = "run" /\ ret.value = 0) =>
               /\ cpu'.pc = (ret.arg + 2) % 65536
               /\ cpu'.s = (cpu.s + 3) % 256
               /\ At(mem, 256 + ((cpu.s + 1) % 256), cpu'.p + 48)
               /\ ~Bit(cpu'.p, STATUS_BREAK_BIT) /\ ~Bit(cpu'.p, STATUS_IGNORED_BIT)
      ]_vars

\* BRK at $0400 with S = 1 and P = $CF, then RTI at the IRQ vector's target:
\* P | $30 went to $01FF, PC is $0402, S is 1 and P is $CF again
C18_Witness ==
    /\ ret.call = "run" /\ ret.value = 64 /\ ops = 2
    /\ At(mem, 1024, 0)
    /\ At(mem, 511, 255)
    /\ cpu.pc = 1026
    /\ cpu.s = 1
    /\ cpu.p = 207

\* bit 7 of a and of b differ: (a ^ b) & 0x80 != 0
SignsDiffer(a, b) == Bit(a, 7) # Bit(b, 7)

\* the registers r and q agree on X, Y, S, PC and the flags I, D, B and bit 5
SameButAccumulator(r, q) ==
    /\ q.x = r.x /\ q.y = r.y /\ q.s = r.s /\ q.pc = r.pc
    /\ \A bit \in {STATUS_INTERRUPT_BIT, STATUS_DECIMAL_BIT,
                   STATUS_BREAK_BIT, STATUS_IGNORED_BIT} : Bit(q.p, bit) = Bit(r.p, bit)

\* C19: with D = 0, ADC of M to A with carry-in c leaves A = (A + M + c) mod
\* 256, C = (A + M + c > 255), V = ((~(A^M) & (A^r) & 0x80) != 0) for the
\* 8-bit result r (the signed sum is outside -128..127), Z = (r = 0), N = bit 7
\* of r, and no other register or flag changed.
C19_AdcBinary ==
    [][ (ret'.call \in {"adc", "Emulator_adc"} /\ ~Bit(cpu.p, STATUS_DECIMAL_BIT)) =>
            LET A == cpu.a
                M == ret'.arg
                c == IF Bit(cpu.p, STATUS_CARRY_BIT) THEN 1 ELSE 0
                r == (A + M + c) % 256
            IN  /\ cpu'.a = r
                /\ Bit(cpu'.p, STATUS_CARRY_BIT) = (A + M + c > 255)
                /\ Bit(cpu'.p, STATUS_OVERFLOW_BIT) = (~SignsDiffer(A, M) /\ SignsDiffer(A, r))
                /\ Bit(cpu'.p, STATUS_OVERFLOW_BIT) = (AsI8(A) + AsI8(M) + c \notin -128 .. 127)
                /\ Bit(cpu'.p, STATUS_ZERO_BIT) = (r = 0)
                /\ Bit(cpu'.p, STATUS_NEGATIVE_BIT) = Bit(r, 7)
                /\ SameButAccumulator(cpu, cpu')
      ]_vars

\* CPU::adc has just added $7F to $7F with the carry set and D clear: A is
\* $FF, V and N are set, C and Z are clear
C19_Witness ==
    /\ ret.call = "adc" /\ ret.arg = 127
    /\ cpu.a = 255
    /\ cpu.p = 192

\* a valid packed-BCD byte and the number it stands for
IsBcd(b) == (b \div 16) \in 0 .. 9 /\ (b % 16) \in 0 .. 9
Dec(b) == 10 * (b \div 16) + (b % 16)

\* the packed BCD of n in 0..99
Bcd(n) == 16 * (n \div 10) + (n % 10)

\* C20: with D = 1, ADC of a valid packed-BCD M to a valid packed-BCD A with
\* carry-in c leaves A = the packed BCD of (dec(A) + dec(M) + c) mod 100 and
\* C = (dec(A) + dec(M) + c >= 100), with V taken from the binary sum.
C20_AdcDecimal ==
    [][ (/\ ret'.call = "adc" /\ Bit(cpu.p, STATUS_DECIMAL_BIT)
         /\ IsBcd(cpu.a) /\ IsBcd(ret'.arg)) =>
            LET A == cpu.a
                M == ret'.arg
                c == IF Bit(cpu.p, STATUS_CARRY_BIT) THEN 1 ELSE 0
                total == Dec(A) + Dec(M) + c
                binary == (A + M + c) % 256
            IN  /\ cpu'.a = Bcd(total % 100)
                /\ Bit(cpu'.p, STATUS_CARRY_BIT) = (total >= 100)
                /\ Bit(cpu'.p, STATUS_OVERFLOW_BIT)
                       = (~SignsDiffer(A, M) /\ SignsDiffer(A, binary))
      ]_vars

\* CPU::adc has just added $27 to $15 with D set and the carry clear: A is
\* $42, C, Z, N and V are clear
C20_Witness ==
    /\ ret.call = "adc" /\ ret.arg = 39
    /\ cpu.a = 66
    /\ cpu.p = 8

\* C21: with D = 0, SBC of M leaves the same A, C, V, Z and N as ADC of the
\* bitwise complement of M, for every A, M and carry-in c: A = (A + ~M + c)
\* mod 256 and C is set iff A - M - (1 - c) >= 0.
C21_SbcIsAdcOfComplement ==
    [][ (ret'.call \in {"sbc", "Emulator_sbc"} /\ ~Bit(cpu.p, STATUS_DECIMAL_BIT)) =>
            LET A == cpu.a
                M == ret'.arg
                c == IF Bit(cpu.p, STATUS_CARRY_BIT) THEN 1 ELSE 0
                added == IF ret'.call = "sbc" THEN adc(cpu, 255 - M)
                                              ELSE Emulator_adc(cpu, 255 - M)
            IN  /\ cpu'.a = added.a
                /\ cpu'.a = (A + (255 - M) + c) % 256
                /\ \A bit \in {STATUS_CARRY_BIT, STATUS_OVERFLOW_BIT,
                               STATUS_ZERO_BIT, STATUS_NEGATIVE_BIT} :
                       Bit(cpu'.p, bit) = Bit(added.p, bit)
                /\ Bit(cpu'.p, STATUS_CARRY_BIT) = (A - M - (1 - c) >= 0)
                /\ Bit(cpu'.p, STATUS_OVERFLOW_BIT) = (AsI8(A) - AsI8(M) - (1 - c) \notin -128 .. 127)
                /\ SameButAccumulator(cpu, cpu')
      ]_vars

\* CPU::sbc has just subtracted $01 from $80 with the carry set and D clear:
\* A is $7F, C and V are set, Z and N are clear
C21_Witness ==
    /\ ret.call = "sbc" /\ ret.arg = 1
    /\ cpu.a = 127
    /\ cpu.p = 65

\* C22: a compare of reg (A for CMP, X for CPX, Y for CPY) with M sets
\* C = (reg >= M), Z = (reg = M), N = bit 7 of (reg - M) mod 256, and leaves
\* A, X, Y, V, D and I (and S, PC) unchanged.
C22_Compare ==
    [][ ret'.call \in {"cmp", "cpx", "cpy"} =>
            LET reg == CASE ret'.call = "cmp" -> cpu.a
                         [] ret'.call = "cpx" -> cpu.x
                         [] OTHER -> cpu.y
                M == ret'.arg
            IN  /\ Bit(cpu'.p, STATUS_CARRY_BIT) = (reg >= M)
                /\ Bit(cpu'.p, STATUS_ZERO_BIT) = (reg = M)
                /\ Bit(cpu'.p, STATUS_NEGATIVE_BIT) = Bit((reg - M) % 256, 7)
                /\ cpu'.a = cpu.a
                /\ SameButAccumulator(cpu, cpu')
                /\ Bit(cpu'.p, STATUS_OVERFLOW_BIT) = Bit(cpu.p, STATUS_OVERFLOW_BIT)
      ]_vars

\* CPU::cpx has just compared X = $10 with $20, V, D and I set before:
\* C and Z are clear, N is set ($F0), V, D and I still set
C22_Witness ==
    /\ ret.call = "cpx" /\ ret.arg = 32
    /\ cpu.x = 16
    /\ cpu.p = 204

\* the opcode bytes of the documented 6502 instruction set, by mnemonic
Documented ==
       {97, 101, 105, 109, 113, 117, 121, 125} \* ADC
    \cup {33, 37, 41, 45, 49, 53, 57, 61} \* AND
    \cup {6, 10, 14, 22, 30} \* ASL
    \cup {144} \* BCC
    \cup {176} \* BCS
    \cup {240} \* BEQ
    \cup {36, 44} \* BIT
    \cup {48} \* BMI
    \cup {208} \* BNE
    \cup {16} \* BPL
    \cup {0} \* BRK
    \cup {80} \* BVC
    \cup {112} \* BVS
    \cup {24} \* CLC
    \cup {216} \* CLD
    \cup {88} \* CLI
    \cup {184} \* CLV
    \cup {193, 197, 201, 205, 209, 213, 217, 221} \* CMP
    \cup {224, 228, 236} \* CPX
    \cup {192, 196, 204} \* CPY
    \cup {198, 206, 214, 222} \* DEC
    \cup {202} \* DEX
    \cup {136} \* DEY
    \cup {65, 69, 73, 77, 81, 85, 89, 93} \* EOR
    \cup {230, 238, 246, 254} \* INC
    \cup {232} \* INX
    \cup {200} \* INY
    \cup {76, 108} \* JMP
    \cup {32} \* JSR
    \cup {161, 165, 169, 173, 177, 181, 185, 189} \* LDA
    \cup {162, 166, 174, 182, 190} \* LDX
    \cup {160, 164, 172, 180, 188} \* LDY
    \cup {70, 74, 78, 86, 94} \* LSR
    \cup {234} \* NOP
    \cup {1, 5, 9, 13, 17, 21, 25, 29} \* ORA
    \cup {72} \* PHA
    \cup {8} \* PHP
    \cup {104} \* PLA
    \cup {40} \* PLP
    \cup {38, 42, 46, 54, 62} \* ROL
    \cup {102, 106, 110, 118, 126} \* ROR
    \cup {64} \* RTI
    \cup {96} \* RTS
    \cup {225, 229, 233, 237, 241, 245, 249, 253} \* SBC
    \cup {56} \* SEC
    \cup {248} \* SED
    \cup {120} \* SEI
    \cup {129, 133, 141, 145, 149, 153, 157} \* STA
    \cup {134, 142, 150} \* STX
    \cup {132, 140, 148} \* STY
    \cup {170} \* TAX
    \cup {168} \* TAY
    \cup {186} \* TSX
    \cup {138} \* TXA
    \cup {154} \* TXS
    \cup {152} \* TYA

\* C23: the decoder dispatches exactly the 151 documented opcode bytes, each
\* to a method of its own; fetching any of the other 105 bytes is fatal: the
\* run aborts, no method is entered and nothing runs afterwards.
C23_Decode ==
    [][ /\ ~aborted
        /\ Cardinality(Documented) = 151
        /\ \A b \in 0 .. 255 :
              At(mem, cpu.pc, b) =>
                 /\ ret'.value = b
                 /\ cpu'.pc = (cpu.pc + 1) % 65536
                 /\ IF b \in Documented
                    THEN /\ ~aborted'
                         /\ ret'.call = Handler(b)
                         /\ ret'.call # "unreachable"
                         /\ \A other \in Documented \ {b} : Handler(other) # ret'.call
                    ELSE /\ aborted'
                         /\ ret'.call = "unreachable"
      ]_vars

\* the undocumented byte $02 was fetched at $0400 and the run has aborted
C23_Witness ==
    /\ aborted
    /\ ret.call = "unreachable" /\ ret.value = 2 /\ ret.arg = 1024
    /\ At(mem, 1024, 2)

\* the order in which the buttons are read
ButtonOrder ==
    <<CONTROLLER_BUTTON_A, CONTROLLER_BUTTON_B, CONTROLLER_BUTTON_SELECT,
      CONTROLLER_BUTTON_START, CONTROLLER_BUTTON_UP, CONTROLLER_BUTTON_DOWN,
      CONTROLLER_BUTTON_LEFT, CONTROLLER_BUTTON_RIGHT>>

\* a call of Bus::read / Bus::write on $4016 has just been made
ReadPort == ret'.call = "Bus_read" /\ ret'.arg = 16406 /\ ops' = ops + 1
WrotePort == ret'.call = "Bus_write" /\ ret'.arg = 16406 /\ ops' = ops + 1

\* 1 = pressed
Pressed(c, i) == IF c.button_states[i] THEN 1 ELSE 0

\* C24: a $4016 write with bit 0 = 0 after one with bit 0 = 1 leaves button A
\* selected; with strobe low the k-th read since then (k = 1..8) returns the
\* state of the k-th of A, B, Select, Start, Up, Down, Left, Right and selects
\* the next, the ninth and every later read return 1, and the selected-button
\* index never exceeds 8.
C24_ReadOrder ==
    [][ LET c == bus.controller
            k == c.selected_button
        IN  /\ bus'.controller.selected_button <= 8
            /\ (WrotePort /\ c.strobe /\ ret'.value % 2 = 0) =>
                   /\ ~bus'.controller.strobe
                   /\ bus'.controller.selected_button = 0
            /\ (WrotePort /\ ~c.strobe /\ ret'.value % 2 = 0) =>
                   bus'.controller = c
            /\ (ReadPort /\ ~c.strobe /\ k < 8) =>
                   /\ ret'.value = Pressed(c, ButtonOrder[k + 1])
                   /\ bus'.controller.selected_button = k + 1
                   /\ ~bus'.controller.strobe
            /\ (ReadPort /\ ~c.strobe /\ k >= 8) =>
                   /\ ret'.value = 1
                   /\ bus'.controller = c
      ]_vars

\* a read has returned 1 with no button held since the last strobe: the
\* eight buttons have been read out and the index stays at 8
C24_Witness ==
    /\ ops = 11
    /\ ret.call = "Bus_read" /\ ret.value = 1 /\ ~ret.flag
    /\ ~bus.controller.strobe
    /\ bus.controller.selected_button = 8
    /\ \A i \in 0 .. 7 : ~bus.controller.button_states[i]

\* C25: a $4016 write with bit 0 low latches the button states: whatever the
\* host does to button_states afterwards, the first read after the write
\* returns the state button A had when the write was made.
C25_Latched ==
    [][ (/\ ret.call = "Bus_write" /\ ret.arg = 16406 /\ ret.value % 2 = 0
         /\ ~bus.controller.strobe /\ bus.controller.selected_button = 0
         /\ ReadPort) =>
            ret'.value = (IF ret.flag THEN 1 ELSE 0)
      ]_vars

\* C26: while strobe is high every read of $4016 returns the current state of
\* button A and leaves the controller as it is, and a write with bit 0 = 1
\* raises strobe and selects button A.
C26_Strobe ==
    [][ LET c == bus.controller
        IN  /\ (ReadPort /\ c.strobe) =>
                   /\ ret'.value = Pressed(c, CONTROLLER_BUTTON_A)
                   /\ bus'.controller = c
            /\ (WrotePort /\ ret'.value % 2 = 1) =>
                   /\ bus'.controller.strobe
                   /\ bus'.controller.selected_button = CONTROLLER_BUTTON_A
                   /\ bus'.controller.button_states = c.button_states
      ]_vars

\* three reads under strobe after a write of 1 that followed two reads: the
\* last returned 1 for button A held, with button B released, and button A is
\* still the one selected
C26_Witness ==
    /\ ops = 6
    /\ ret.call = "Bus_read" /\ ret.value = 1 /\ ret.flag
    /\ bus.controller.strobe
    /\ bus.controller.selected_button = 0
    /\ bus.controller.button_states[CONTROLLER_BUTTON_A]
    /\ ~bus.controller.button_states[CONTROLLER_BUTTON_B]

\* addresses of the CPU with nothing behind them for a read
UnmappedForRead == (16384 .. 16405) \cup (16408 .. 24575)

\* C27: a read of an address with no backing ($4000-$4015, $4018-$5FFF)
\* returns 0, does not abort, and leaves the memory map, the PPU, the
\* controller and the cycle count as they were.
C27_UnmappedRead ==
    [][ (ret'.call \in {"Bus_read", "CpuMemory_read"} /\ ret'.arg \in UnmappedForRead) =>
            /\ ~aborted'
            /\ ret'.value = 0
            /\ bus' = bus /\ ppu' = ppu /\ bus_cycle' = bus_cycle
      ]_vars

\* addresses with no writable backing; the APU range without the controller
\* port
UnmappedForWrite == (16408 .. 24575) \cup (32768 .. 65535)
ApuRange == (16384 .. 16407) \ {16406}

\* C28: a write to an address with no writable backing ($4018-$5FFF, PRG-ROM
\* $8000-$FFFF) is fatal, so that no such write is silently accepted; a write
\* in the APU range $4000-$4017 other than $4016 completes and changes
\* nothing.
C28_UnmappedWrite ==
    [][ /\ (ret'.call \in {"Bus_write", "MemoryMap_write"} /\ ret'.arg \in UnmappedForWrite) =>
               aborted'
        /\ (ret'.call = "Bus_write" /\ ret'.arg \in ApuRange) =>
               /\ ~aborted'
               /\ bus' = bus /\ ppu' = ppu /\ bus_cycle' = bus_cycle
      ]_vars

\* C29: OAMDATA can be written and read through the bus: a Bus::write and a
\* Bus::read of $2004 or of any of its mirrors $2004 + 8k below $4000
\* complete without aborting.
C29_OamData ==
    [][ (/\ ret'.call \in {"Bus_write", "Bus_read"}
         /\ ret'.arg \in 8192 .. 16383
         /\ ret'.arg % 8 = 4) => ~aborted'
      ]_vars

\* the byte a read of the memory map at hand returns, for a PRG-ROM address
ReadRom(a) ==
    IF bus.struct = "Bus" THEN Bus_read(bus, ppu, a).value
    ELSE MemoryMap_read(bus, a)

\* C30: reset_vector() returns read($FFFC) | read($FFFD) << 8 and changes
\* nothing (no cycle count change, no PPU tick); and on a cartridge with 16
\* KiB of PRG-ROM read(a) = read(a + $4000) for every a in $8000-$BFFF.
C30_ResetVector ==
    [][ ret'.call \in {"Bus_reset_vector", "MemoryMap_reset_vector"} =>
            /\ ret'.value = ReadRom(65532) + 256 * ReadRom(65533)
            /\ ~aborted'
            /\ bus' = bus /\ ppu' = ppu /\ bus_cycle' = bus_cycle
            /\ bus.rom.prg_rom.len = PRG_ROM_CHUNK_SIZE =>
                   \A a \in 32768 .. 49151 : ReadRom(a) = ReadRom(a + 16384)
      ]_vars

\* Bus::reset_vector has returned the vector of a 16 KiB cartridge, $4241,
\* which is made of the bytes at the offsets $3FFC and $3FFD of its one bank;
\* the PPU had its address register written before and keeps it
C30_Witness ==
    /\ ret.call = "Bus_reset_vector"
    /\ bus.rom.prg_rom.len = PRG_ROM_CHUNK_SIZE
    /\ ret.value = 16961
    /\ ppu.addr.hi = 1
    /\ bus_cycle = 0

\* C31: Bus::tick(c) hands 3 * (c - previous c) dots to the PPU and records c
\* as the bus cycle count (so that the dots handed over by ticks with
\* non-decreasing c add up to 3 * c), and a call with c below the recorded
\* count is not accepted: it aborts.
C31_TickDelta ==
    [][ ret'.call = "Bus_tick" =>
            IF ret'.arg >= bus_cycle
            THEN /\ ret'.value = 3 * (ret'.arg - bus_cycle)
                 /\ ~aborted'
                 /\ bus_cycle' = ret'.arg
                 /\ ppu' = Ppu_tick(ppu, 3 * (ret'.arg - bus_cycle))
            ELSE aborted'
      ]_vars

\* the nametable page (0..3) and the offset in the page of a PPU address in
\* $2000-$2FFF
NametablePage(a) == (a - 8192) \div 1024
NametableOffset(a) == (a - 8192) % 1024

\* two pages that the mirroring folds onto the same kilobyte: under vertical
\* mirroring pages 0,2 and 1,3; under horizontal mirroring pages 0,1 and 2,3
SameNametable(mirroring, p, q) ==
    IF mirroring = "Vertical" THEN p % 2 = q % 2 ELSE p \div 2 = q \div 2

\* the addresses looked at around an access at a: the first and last byte of
\* each page, and a's offset in each page
NametableProbes(a) ==
    {8192 + q * 1024 + o : q \in 0 .. 3, o \in {0, 1023, NametableOffset(a)}}

\* C32: under vertical mirroring pages 2 and 3 alias pages 0 and 1, which are
\* independent; under horizontal mirroring page 1 aliases page 0 and page 3
\* aliases page 2, pages 0 and 2 being independent: a byte written at an
\* address in $2000-$2FFF reads back at the same offset of every aliasing
\* page and changes no other cell, a read returns what each aliasing page
\* holds, and every raw offset $000-$FFF folds to an index below $800.
C32_Mirroring ==
    [][ (ret'.call \in {"PpuMemory_read", "PpuMemory_write"}
            /\ ret'.arg \in 8192 .. 12287) =>
          /\ ~aborted'
          /\ \A o \in 0 .. 4095 : mirror_vram_addr(ppu.memory, o) \in 0 .. 2047
          /\ DOMAIN ppu'.memory.vram \subseteq 0 .. 2047
          /\ \A q \in 0 .. 3 :
                SameNametable(ppu.memory.mirroring, NametablePage(ret'.arg), q) =>
                    PpuMemory_read(ppu'.memory,
                                   8192 + q * 1024 + NametableOffset(ret'.arg))
                        = ret'.value
          /\ \A b \in NametableProbes(ret'.arg) :
                ~ ( /\ SameNametable(ppu.memory.mirroring,
                                     NametablePage(ret'.arg), NametablePage(b))
                    /\ NametableOffset(b) = NametableOffset(ret'.arg) ) =>
                    PpuMemory_read(ppu'.memory, b) = PpuMemory_read(ppu.memory, b)
      ]_vars

\* a byte written to page 1 under horizontal mirroring has been read at the
\* same offset of one of the pages
C32_Witness ==
    /\ ppu.memory.mirroring = "Horizontal"
    /\ ret.call = "PpuMemory_read"
    /\ ret.arg \in {8192 + 1023, 9216 + 1023}
    /\ ret.value = 165
    /\ ~aborted

\* C33: an access in $3000-$3EFF does not abort and reads or writes the cell
\* of the address $1000 below it.
C33_NametableMirror ==
    [][ (ret'.call \in {"PpuMemory_read", "PpuMemory_write"}
            /\ ret'.arg \in 12288 .. 16127) =>
          /\ ~aborted'
          /\ ret'.call = "PpuMemory_read" =>
                ret'.value = PpuMemory_read(ppu.memory, ret'.arg - 4096)
          /\ ret'.call = "PpuMemory_write" =>
                ppu'.memory = PpuMemory_write(ppu.memory, ret'.arg - 4096, ret'.value)
      ]_vars

\* the palette cell the claim gives to an address in $3F00-$3FFF
PaletteCell(a) ==
    LET i == (a - 16128) % 32
    IN  IF i \in {16, 20, 24, 28} THEN i - 16 ELSE i

\* C34: $3F10/$3F14/$3F18/$3F1C access the cells of $3F00/$3F04/$3F08/$3F0C,
\* and every address in $3F20-$3FFF accesses $3F00 + (address mod 32).
C34_PaletteMirror ==
    [][ (ret'.call \in {"PpuMemory_read", "PpuMemory_write"}
            /\ ret'.arg \in 16128 .. 16383) =>
          /\ ~aborted'
          /\ ret'.call = "PpuMemory_read" =>
                ret'.value = Ram_read(ppu.memory.palette_table, PaletteCell(ret'.arg))
          /\ ret'.call = "PpuMemory_write" =>
                ppu'.memory.palette_table =
                    Ram_write(ppu.memory.palette_table, PaletteCell(ret'.arg), ret'.value)
      ]_vars

\* C35: a read of PPUDATA with the address in $3F00-$3FFF returns the palette
\* byte at once and still refills the read buffer with the nametable byte
\* that lies $1000 below the address, which the next read outside the palette
\* returns.
C35_PaletteRead ==
    [][ (ret'.call = "read_ppu_data" /\ get_addr(ppu.addr) \in 16128 .. 16383) =>
          /\ ~aborted'
          /\ ret'.value = PpuMemory_read(ppu.memory, get_addr(ppu.addr))
          /\ ppu'.data_buffer =
                 PpuMemory_read(ppu.memory, get_addr(ppu.addr) - 4096)
      ]_vars

\* C36: the step of Ppu::tick that ends the frame (the scanline goes back to
\* 0) leaves bits 7, 6 and 5 of PPUSTATUS clear, whatever they were before,
\* and sets new_frame.
C36_FrameEndClears ==
    [][ (ret'.call = "tick" /\ ppu.scanline # 0 /\ ppu'.scanline = 0) =>
          /\ ~get_status_bit(ppu', PPU_STATUS_VBLANK_BIT)
          /\ ~get_status_bit(ppu', PPU_STATUS_SPRITE_HIT_BIT)
          /\ ~get_status_bit(ppu', PPU_STATUS_SPRITE_OVERFLOW_BIT)
          /\ ppu'.new_frame
      ]_vars

\* bits 4 (B) and 5 of a status byte
BreakBits(b) == <<Bit(b, STATUS_BREAK_BIT), Bit(b, STATUS_IGNORED_BIT)>>

\* C37: in every state of the CPU, whatever PHP, PLP, BRK and RTI have pushed
\* and pulled, bits 4 and 5 of the live P are 0; the byte PHP and BRK push
\* has both set.
C37_BreakBits ==
    /\ [](BreakBits(cpu.p) = <<FALSE, FALSE>>)
    /\ [][ (ret'.call = "run" /\ ~aborted') =>
             /\ ret'.value = 8 =>
                   \E b \in 0 .. 255 : /\ At(mem', 256 + cpu.s, b)
                                       /\ BreakBits(b) = <<TRUE, TRUE>>
             /\ ret'.value = 0 =>
                   \E b \in 0 .. 255 : /\ At(mem', 256 + ((cpu.s + 254) % 256), b)
                                       /\ BreakBits(b) = <<TRUE, TRUE>>
         ]_vars

\* PLP has pulled a byte with bits 4 and 5 set
C37_Witness ==
    /\ ret.call = "run"
    /\ ret.value = 40
    /\ ~aborted
    /\ \E b \in 0 .. 255 : /\ At(mem, 256 + cpu.s, b)
                           /\ BreakBits(b) = <<TRUE, TRUE>>
    /\ cpu.p # 0

\* C38: an NMI raised on entering VBlank or by a PPUCTRL write and not taken
\* by poll_nmi before the frame wraps is discarded at the wrap: no NMI is
\* pending outside scanlines 241..262, so a poll after the wrap returns
\* false; poll_nmi returns a pending NMI once and consumes it.
C38_NmiLostAtWrap ==
    /\ [](ppu.nmi => ppu.scanline \in VISIBLE_SCANLIENS + 1 .. SCANLINES)
    /\ [][ /\ (ret'.call = "tick" /\ Reaches(0)) => ~ppu'.nmi
           /\ ret'.call = "poll_nmi" =>
                 /\ ret'.flag = ppu.nmi
                 /\ ~ppu'.nmi
                 /\ ret'.flag => ppu.scanline \in VISIBLE_SCANLIENS + 1 .. SCANLINES
         ]_vars

\* poll_nmi has returned false after a frame wrap, with the NMI enabled in
\* PPUCTRL and the frame's new_frame event still pending
C38_Witness ==
    /\ ret.call = "poll_nmi"
    /\ ~ret.flag
    /\ ppu.scanline = 0
    /\ ppu.new_frame
    /\ get_ctrl_bit(ppu, PPU_CTRL_VBLANK_NMI_BIT)

\* the byte of the image at k (0 where the image does not hold it)
ByteAt(m, k) == IF k \in DOMAIN m THEN m[k] ELSE 0

\* the addresses an instruction has read besides its own bytes
Touched == DOMAIN mem' \ DOMAIN mem

\* C39: zero-page indexed and indirect addressing stays in page zero. zp,X
\* and zp,Y access (operand + index) mod 256; (zp,X) reads its pointer from
\* (operand + X) mod 256 and (operand + X + 1) mod 256; (zp),Y reads its
\* pointer from operand and (operand + 1) mod 256, and only the sum of that
\* pointer and Y is taken in 16 bits.
C39_ZeroPageWrap ==
    [][ (ret'.call = "run" /\ ret'.value \in ZeroPageInstructions) =>
          LET operand == ByteAt(mem, (ret'.arg + 1) % 65536)
              zx == (operand + cpu.x) % 256
              zy == (operand + cpu.y) % 256
              ptr_x == Word(ByteAt(mem', (zx + 1) % 256), ByteAt(mem', zx))
              ptr_y == Word(ByteAt(mem', (operand + 1) % 256), ByteAt(mem', operand))
          IN  /\ ~aborted'
              /\ ret'.value = 181 =>
                    /\ Touched = {zx}
                    /\ cpu'.a = ByteAt(mem', zx)
              /\ ret'.value = 182 =>
                    /\ Touched = {zy}
                    /\ cpu'.x = ByteAt(mem', zy)
              /\ ret'.value = 161 =>
                    /\ Touched = {zx, (zx + 1) % 256, ptr_x}
                    /\ cpu'.a = ByteAt(mem', ptr_x)
              /\ ret'.value = 177 =>
                    /\ Touched = {operand, (operand + 1) % 256,
                                  (ptr_y + cpu.y) % 65536}
                    /\ cpu'.a = ByteAt(mem', (ptr_y + cpu.y) % 65536)
      ]_vars

\* LDA ($FF,X) with X = 0 has read its pointer from $FF and $00 and nothing
\* from page one
C39_Witness ==
    /\ ret.call = "run"
    /\ ret.value = 161
    /\ cpu.x = 0
    /\ At(mem, 1025, 255)
    /\ {255, 0} \subseteq DOMAIN mem
    /\ 256 \notin DOMAIN mem
    /\ ~aborted

\* C40: a JMP absolute whose target is the address of its own opcode stops
\* the emulator with a trap; every other JMP absolute sets PC to its target
\* and the emulator goes on.
C40_JmpTrap ==
    [][ (ret'.call \in {"run", "Emulator_run"} /\ ret'.value = 76) =>
          LET target == Word(ByteAt(mem, (ret'.arg + 2) % 65536),
                             ByteAt(mem, (ret'.arg + 1) % 65536))
          IN  IF target = ret'.arg
              THEN aborted'
              ELSE ~aborted' /\ cpu'.pc = target
      ]_vars

====
